---- MODULE Spec2Model ----
(***************************************************************************)
(* The checkpointed, parallel, three-layer evaluation pipeline of          *)
(* evaluation_pipeline/: the layer drivers run_layer_{1,2,3}_evaluation,   *)
(* their batch workers, and the utilities they call (create_batch_iterator,*)
(* merge_results, save_checkpoint, load_checkpoint).                       *)
(*                                                                         *)
(* One behaviour of Spec is a sequence of calls of one layer's driver on   *)
(* one input set: each call loads the latest checkpoint, filters, splits,  *)
(* submits every batch and collects the futures in whatever order they     *)
(* complete.  LiveSpec is Spec with the fairness of workers that all end;  *)
(* OrderSpec starts the driver on an input of three batches of unequal     *)
(* length, ResumeSpec on a directory that holds an earlier run's           *)
(* checkpoint.                                                             *)
(*                                                                         *)
(* The utilities are also run on their own: MergeSpec (merge_results),     *)
(* BatchSpec (create_batch_iterator), RetrySpec (retry_with_backoff beside *)
(* async_retry_with_backoff) and FilesSpec (save_checkpoint and            *)
(* load_checkpoint on the files of the checkpoint directory).              *)
(*                                                                         *)
(* The evaluators of one item run on their own as well: StructureSpec      *)
(* (evaluate_workflow_structure), ExecutionSpec                            *)
(* (execute_workflow_with_test_inputs), AggregateSpec                      *)
(* (_aggregate_evaluations) and AssessSpec (_get_quality_assessment); and  *)
(* PipelineSpec is one run of main through run_complete_evaluation,        *)
(* ReportSpec its final report (_generate_final_report), DispatchSpec the  *)
(* sizing and the use of the worker pool.                                  *)
(***************************************************************************)
EXTENDS Integers, Sequences, FiniteSets, TLC

\* ------------------------------------------------------------ bounds
MaxItems == 3
MaxBatchSize == 2
MaxFaults == 1
\* merge_results and create_batch_iterator on their own
MaxParts == 2
MaxLen == 5
MaxSize == 3
\* the retry decorators
MaxRetries == 2
MaxDelay == 2
MaxFactor == 2
\* the checkpoint directory
MaxSaves == 3
MaxClock == 2
MaxEvaluations == 3
MaxScore == 100
MaxRecords == 2
\* the worker pool
MaxProcesses == 3
MaxCpu == 4

\* ------------------------------------------------ values of the program
\* Python's None, as a test_id: dict.get on an absent key.
NoId == 0
\* The literal 'unknown' that a batch worker records for an item without id.
Unknown == -1

Layers == {1, 2, 3}

\* `if len(all_results) % K == 0`: K is 5 in layer 1 and 3 in layers 2 and 3.
CheckpointEvery(L) == IF L = 1 THEN 5 ELSE 3

\* dict.get(key, default) on a dict modelled as a function.
Get(d, k, default) == IF k \in DOMAIN d THEN d[k] ELSE default

Range(s) == {s[i] : i \in DOMAIN s}

RECURSIVE Select(_, _)
\* [x for x in s if x in keep]: the subsequence of s of the elements in keep.
Select(s, keep) ==
    IF s = <<>> THEN <<>>
    ELSE IF Head(s) \in keep THEN <<Head(s)>> \o Select(Tail(s), keep)
         ELSE Select(Tail(s), keep)

\* ------------------------------------------------------------ items
\* A TestItem as load_test_data leaves it: test_id is the declared
\* workflow_id when the file declares one, and the content hash (distinct
\* for distinct items) otherwise.
TestItem(i, declared) ==
    [test_id |-> i, workflow_id |-> IF declared THEN i ELSE NoId]

\* A Layer-1 record, the input item of layer 2.
L1Record(id, success, wf) ==
    [test_id |-> id, success |-> success, workflow_json |-> wf]

\* A Layer-2 record, the input item of layer 3.
L2Record(id, ok) == [test_id |-> id, overall_success |-> ok]

\* A Layer-3 record.
L3Record(id, ok) == [test_id |-> id, evaluation_success |-> ok]

\* The input items one position of the input list can hold, per layer.
ItemsAt(L, i) ==
    CASE L = 1 -> {TestItem(i, d) : d \in BOOLEAN}
      [] L = 2 -> {L1Record(i, TRUE, TRUE), L1Record(i, FALSE, FALSE),
                   L1Record(i, TRUE, FALSE)}
      [] L = 3 -> {L2Record(i, ok) : ok \in BOOLEAN}

\* The input lists of a layer: up to MaxItems items of any kind.
Inputs(L) ==
    UNION {{s \in [1..n -> UNION {ItemsAt(L, i) : i \in 1..n}] :
              \A i \in 1..n : s[i] \in ItemsAt(L, i)} : n \in 0..MaxItems}

\* An item that has its identifier and passes the layer's success filter.
PlainItem(L, i) ==
    CASE L = 1 -> TestItem(i, TRUE)
      [] L = 2 -> L1Record(i, TRUE, TRUE)
      [] L = 3 -> L2Record(i, TRUE)

\* The input list with which, in batches of one item, the layer's periodic
\* checkpoint comes due: as many plain items as the layer's K.
LongInput(L) == [i \in 1..CheckpointEvery(L) |-> PlainItem(L, i)]

\* The identifier a layer's driver and evaluator read from an input item:
\* test.get('workflow_id') in layer 1, item.get('test_id') in layers 2, 3.
ItemKey(L, item) == IF L = 1 THEN item.workflow_id ELSE item.test_id

\* The identifier of an input item (TestItem.test_id, or the record's).
ItemId(item) == item.test_id

\* Eligible, had layer 2 tested the success flag alone.
EligibleBySuccessAlone(L, item) ==
    CASE L = 1 -> TRUE
      [] L = 2 -> item.success
      [] L = 3 -> item.overall_success

\* Eligible, had layer 3 taken every Layer-2 record.
EligibleAnyExecution(L, item) ==
    CASE L = 1 -> TRUE
      [] L = 2 -> item.success /\ item.workflow_json
      [] L = 3 -> TRUE

\* The success filter on the prior layer's records (layer 1 takes all).
Eligible(L, item) ==
    CASE L = 1 -> TRUE
      [] L = 2 -> item.success /\ item.workflow_json
      [] L = 3 -> item.overall_success

\* ------------------------------------------------------------ utils.py
\* create_batch_iterator, had it stopped before a batch it cannot fill.
create_batch_iterator_full_batches(items, B) ==
    [k \in 1..(Len(items) \div B) |->
        SubSeq(items, (k - 1) * B + 1, k * B)]

\* create_batch_iterator: [items[i:i + batch_size] for i in range(0, len, B)].
create_batch_iterator(items, B) ==
    [k \in 1..((Len(items) + B - 1) \div B) |->
        SubSeq(items, (k - 1) * B + 1,
               IF k * B < Len(items) THEN k * B ELSE Len(items))]

\* The 'merged' dict merge_results starts from.
EmptyMerged ==
    [test_results |-> <<>>,
     summary |-> [total_tests |-> 0, successful |-> 0, failed |-> 0,
                  execution_time |-> 0],
     errors |-> <<>>]

\* MergeOne, had the counters been assigned instead of added.
MergeOneAssigns(m, r) ==
    [test_results |-> m.test_results \o Get(r, "test_results", <<>>),
     errors |-> m.errors \o Get(r, "errors", <<>>),
     summary |->
        IF "summary" \in DOMAIN r
        THEN [total_tests |-> Get(r.summary, "total_tests", 0),
              successful |-> Get(r.summary, "successful", 0),
              failed |-> Get(r.summary, "failed", 0),
              execution_time |-> Get(r.summary, "execution_time", 0)]
        ELSE m.summary]

\* One turn of merge_results' loop: extend the lists, add the counters.
MergeOne(m, r) ==
    [test_results |-> m.test_results \o Get(r, "test_results", <<>>),
     errors |-> m.errors \o Get(r, "errors", <<>>),
     summary |->
        IF "summary" \in DOMAIN r
        THEN [total_tests |-> m.summary.total_tests
                                + Get(r.summary, "total_tests", 0),
              successful |-> m.summary.successful
                                + Get(r.summary, "successful", 0),
              failed |-> m.summary.failed + Get(r.summary, "failed", 0),
              execution_time |-> m.summary.execution_time
                                + Get(r.summary, "execution_time", 0)]
        ELSE m.summary]

RECURSIVE MergeFrom(_, _)
MergeFrom(m, rs) ==
    IF rs = <<>> THEN m ELSE MergeFrom(MergeOne(m, Head(rs)), Tail(rs))

\* merge_results(results_list).
merge_results(rs) == MergeFrom(EmptyMerged, rs)

\* A file that json.load cannot parse: what a write that raised after
\* open(filepath, 'w') leaves behind.
Unreadable == [unreadable |-> TRUE]
IsReadable(file) == "unreadable" \notin DOMAIN file

\* load_checkpoint: the content of the checkpoint file of the layer with the
\* greatest name; None (here the empty dict, as falsy as None) when the
\* directory does not exist, when it holds no such file or when the file
\* cannot be parsed. The names carry the time of the write, so the greatest
\* is the last written; files is the layer's checkpoint files in the order
\* of their writes.
NoCheckpoint == <<>>

\* load_checkpoint, had it answered a missing directory with an empty
\* result instead of None.
load_checkpoint_empty_result(exists, files) ==
    IF ~exists
    THEN [test_results |-> <<>>, errors |-> <<>>,
          summary |-> [total_tests |-> 0]]
    ELSE IF files = <<>> THEN NoCheckpoint
    ELSE IF IsReadable(files[Len(files)]) THEN files[Len(files)]
         ELSE NoCheckpoint

\* load_checkpoint, had it fallen back on the latest file it can parse.
load_checkpoint_latest_readable(exists, files) ==
    LET readable == {i \in DOMAIN files : IsReadable(files[i])}
    IN  IF ~exists \/ readable = {} THEN NoCheckpoint
        ELSE files[CHOOSE i \in readable : \A j \in readable : j <= i]

\* load_checkpoint(checkpoint_dir, layer), as the driver of the layer sees it.
load_checkpoint(exists, files) ==
    IF ~exists THEN NoCheckpoint
    ELSE IF files = <<>> THEN NoCheckpoint
    ELSE IF IsReadable(files[Len(files)]) THEN files[Len(files)]
         ELSE NoCheckpoint

\* save_checkpoint: one more checkpoint of the layer, the latest from now on.
save_checkpoint(files, data) == Append(files, data)

\* save_checkpoint raises: before the file is opened (nothing is written),
\* or while json.dump writes it (the file is left unreadable).
save_checkpoint_raises(files, partial) ==
    IF partial THEN Append(files, Unreadable) ELSE files

\* ------------------------------------------------------- batch workers
\* What the layer's evaluator does with one item: it returns a record with
\* the success flag set ("ok") or cleared ("failed"), or it raises.
Outcomes == {"ok", "failed", "raised"}

\* The record the layer's evaluator returns for an item.
EvalRecord(L, item, ok) ==
    CASE L = 1 -> L1Record(item.workflow_id, ok, ok)
      [] L = 2 -> L2Record(item.test_id, ok)
      [] L = 3 -> L3Record(item.test_id, ok)

\* The error a batch worker records for an item whose evaluation raised:
\* error_info['test_id'] = item.get(key, 'unknown').
ErrorInfo(L, item) ==
    [type |-> "item",
     test_id |-> IF L = 1 /\ item.workflow_id = NoId THEN Unknown
                 ELSE ItemKey(L, item)]

RECURSIVE BatchLoop(_, _, _, _, _)
\* The worker's loop over its batch from position i on.
BatchLoop(L, batch, oc, i, acc) ==
    IF i > Len(batch) THEN acc
    ELSE BatchLoop(L, batch, oc, i + 1,
            IF oc[i] = "raised"
            THEN [acc EXCEPT !.errors = Append(@, ErrorInfo(L, batch[i]))]
            ELSE [acc EXCEPT !.results =
                     Append(@, EvalRecord(L, batch[i], oc[i] = "ok"))])

\* evaluate_batch, had the worker counted the items that returned a record
\* as the batch's total.
evaluate_batch_total_of_results(L, batch, oc) ==
    LET out == BatchLoop(L, batch, oc, 1, [results |-> <<>>, errors |-> <<>>])
    IN  [test_results |-> out.results,
         errors |-> out.errors,
         summary |-> [total_tests |-> Len(out.results),
                      successful |-> Len(out.results),
                      failed |-> Len(out.errors),
                      execution_time |-> Len(batch)]]

\* evaluate_structure_batch, execute_workflows_batch, evaluate_outputs_batch
\* on a batch whose items end as oc says.
evaluate_batch(L, batch, oc) ==
    LET out == BatchLoop(L, batch, oc, 1, [results |-> <<>>, errors |-> <<>>])
    IN  [test_results |-> out.results,
         errors |-> out.errors,
         summary |-> [total_tests |-> Len(batch),
                      successful |-> Len(out.results),
                      failed |-> Len(out.errors),
                      execution_time |-> Len(batch)]]

\* The items of a batch that do not end "ok".
NotOk(oc) == Cardinality({i \in DOMAIN oc : oc[i] # "ok"})

\* ------------------------------------------------------- layer drivers
\* The result a driver appends for a batch of n items whose future raised.
SyntheticResult(n) ==
    [test_results |-> <<>>,
     errors |-> <<[type |-> "batch", test_id |-> Unknown]>>,
     summary |-> [total_tests |-> n, successful |-> 0, failed |-> 1]]

\* checkpoint = {'test_results': [], 'errors': [], 'summary': {}}.
EmptyCheckpoint == [test_results |-> <<>>, errors |-> <<>>, summary |-> <<>>]

\* What layers 2 and 3 return when the prior layer left no success.
NoWorkResult(L) ==
    [layer |-> L, test_results |-> <<>>, errors |-> <<>>,
     summary |-> [total_tests |-> 0, successful |-> 0, failed |-> 0],
     message |-> "nothing to evaluate"]

\* The prior layer's records that pass the success filter, in order.
SuccessfulItems(L, items) ==
    Select(items, {x \in Range(items) : Eligible(L, x)})

\* completed_ids = {result['test_id'] for result in checkpoint results}.
CompletedIds(ck) == {r.test_id : r \in Range(Get(ck, "test_results", <<>>))}

\* Remaining, had the driver not looked at completed_ids.
RemainingUnfiltered(L, items, ck) == items

\* The items left to do: those whose key is not in completed_ids.
Remaining(L, items, ck) ==
    Select(items, {x \in Range(items) : ItemKey(L, x) \notin CompletedIds(ck)})

\* MergeAll, had the driver passed the checkpoint last.
MergeAllCheckpointLast(ck, results) == merge_results(results \o <<ck>>)

\* merge_results([checkpoint] + all_results).
MergeAll(ck, results) == merge_results(<<ck>> \o results)

\* final_results with 'layer', 'total_execution_time', 'timestamp' stamped;
\* now is the reading of the clock.
Stamp(m, L, now) ==
    m @@ [layer |-> L, total_execution_time |-> now, timestamp |-> now]

\* ------------------------------------------------------------ state
VARIABLES
    layer,        \* the layer whose driver runs: 1, 2 or 3
    batch_size,   \* config.batch_size
    input,        \* the driver's argument: test_data, or the prior layer's records
    ckpt_dir,     \* config.checkpoint_dir exists
    ckpt_files,   \* the layer's checkpoint files, in the order of their writes
    results_file, \* layer_<N>_..._evaluation.json: <<>> or <<final_results>>
    pc,           \* "idle", "collect", "done", "raised" or "killed"
    checkpoint,   \* the driver's local 'checkpoint'
    batches,      \* the driver's local 'batches', all submitted
    collected,    \* indexes of the batches as_completed has yielded
    all_results,  \* the driver's local 'all_results'
    returned,     \* <<>> or <<the driver's return value>>
    worker_out,   \* per batch: <<>> (pending or raised) or <<worker's result>>
    raised_at,    \* indexes of the batches whose future raised
    fresh,        \* the call found no checkpoint
    save_failed,  \* a periodic save_checkpoint raised in this call
    epoch,        \* checkpoint files there were when a call last started
                  \* without a readable latest checkpoint
    prev,         \* the previous call: how it ended and what it returned
    faults        \* failures so far (items, futures, writes, kills); a
                  \* long input, and a missing checkpoint directory,
                  \* start with one of MaxFaults spent

\* A call of a utility function checked on its own.
VARIABLES
    arg,          \* the arguments of the call
    out           \* <<>>, or <<what the call returned>>

call == <<arg, out>>

\* A callable under retry_with_backoff and the same callable under
\* async_retry_with_backoff, each called once.
VARIABLES
    max_retries,     \* the decorators' arguments
    delay,
    backoff_factor,
    script,          \* how the n-th invocation of the callable ends
    sync,            \* wrapper's locals, and what it has done so far
    async            \* async_wrapper's

retry == <<max_retries, delay, backoff_factor, script, sync, async>>

\* The checkpoint directory, file by file, under calls of save_checkpoint
\* and load_checkpoint for any layer (ckpt_dir says whether it exists).
VARIABLES
    disk,         \* the files of the directory: name -> content
    now,          \* datetime.now(), in whole seconds
    saved,        \* the calls of save_checkpoint that wrote a file, in order
    last_load     \* <<>>, or <<the last load_checkpoint: layer and value>>

files == <<disk, now, saved, last_load>>

\* One call of StructureEvaluator.evaluate_workflow_structure, the method
\* as decorated with retry_with_backoff(max_retries=3, delay=2.0).
VARIABLES
    workflow_data,   \* the argument: a test item
    generated,       \* how the calls of generator.generate_workflow ended
    structure        \* wrapper's locals, and what it has done so far

structure_eval == <<workflow_data, generated, structure>>

\* One call of ExecutionEvaluator.execute_workflow_with_test_inputs.
VARIABLES
    l1_record,          \* the argument workflow_data: a Layer-1 record
    exec_pc,            \* "start", "loop" or "done"
    test_inputs,        \* the local test_inputs
    execution_results,  \* the local execution_results
    executor,           \* wrapper's locals around _execute_single_workflow
                        \* for the input set at hand
    executed,           \* per input set, how its executions ended
    execution_out       \* <<>>, or <<the record returned>>

execution_eval == <<l1_record, exec_pc, test_inputs, execution_results,
                    executor, executed, execution_out>>

\* One run of main: WorkflowEvaluationPipeline.run_complete_evaluation
\* with the drivers it calls.
VARIABLES
    test_data,       \* the test items found
    layers_to_run,   \* config.layers_to_run, a list
    pipeline_pc,     \* "start", "layer", "driver", "report", "returned"
                     \* or "raised"
    at,              \* the layer the coordinator is at
    layer_results,   \* the locals layer_1_results, layer_2_results,
                     \* layer_3_results: <<>> for None, or <<a result>>
    self_results,    \* self.results: layer -> result
    results_dir,     \* the layers' results files: <<>>, or <<content>>
    events,          \* the drivers started, returned and raised, and
                     \* the report not written, in order
    report_file,     \* <<>>, or <<the comprehensive report written>>
    exit_code        \* <<>>, or <<what main returned>>

pipeline == <<test_data, layers_to_run, pipeline_pc, at, layer_results,
              self_results, results_dir, events, report_file, exit_code>>

\* main's validation of config.max_processes and the worker pool of the
\* layer run that follows.
VARIABLES
    host,            \* the machine: cpu_count, and the available memory
                     \* in MiB
    max_processes,   \* config.max_processes
    pool             \* the layer run: where it is, max_processes as
                     \* configured, its batches, and the executor's
                     \* workers, queue and running calls

dispatch == <<host, max_processes, pool>>

\* The item evaluators, the coordinator and the worker pool.
evaluation == <<structure_eval, execution_eval, pipeline, dispatch>>

\* What no step of a layer's driver touches.
others == <<call, retry, files, evaluation>>

config == <<layer, batch_size, input>>
store == <<ckpt_dir, ckpt_files, results_file>>
ghost == <<worker_out, raised_at, fresh, save_failed, epoch>>
vars == <<layer, batch_size, input, ckpt_dir, ckpt_files, results_file, pc,
          checkpoint, batches, collected, all_results, returned,
          worker_out, raised_at, fresh, save_failed, epoch, prev, faults,
          others>>

\* No utility function is being called on its own.
NoCall == arg = <<>> /\ out = <<>>

\* No decorated callable is being called.
NoRetry ==
    /\ max_retries = 0
    /\ delay = 0
    /\ backoff_factor = 0
    /\ script = <<>>
    /\ sync = <<>>
    /\ async = <<>>

\* The checkpoint directory is not looked at file by file.
NoFiles ==
    /\ disk = <<>>
    /\ now = 0
    /\ saved = <<>>
    /\ last_load = <<>>

\* evaluate_workflow_structure is not being called on its own.
NoStructure ==
    /\ workflow_data = <<>>
    /\ generated = <<>>
    /\ structure = <<>>

\* execute_workflow_with_test_inputs is not being called on its own.
NoExecution ==
    /\ l1_record = <<>>
    /\ exec_pc = "done"
    /\ test_inputs = <<>>
    /\ execution_results = <<>>
    /\ executor = <<>>
    /\ executed = <<>>
    /\ execution_out = <<>>

\* main is not running.
NoPipeline ==
    /\ test_data = <<>>
    /\ layers_to_run = <<>>
    /\ pipeline_pc = "returned"
    /\ at = 1
    /\ layer_results = <<>>
    /\ self_results = <<>>
    /\ results_dir = <<>>
    /\ events = <<>>
    /\ report_file = <<>>
    /\ exit_code = <<>>

\* No worker pool is looked at.
NoDispatch ==
    /\ host = <<>>
    /\ max_processes = 0
    /\ pool = <<>>

NoEvaluation == NoStructure /\ NoExecution /\ NoPipeline /\ NoDispatch

Init ==
    /\ layer \in Layers
    /\ \/ /\ batch_size \in 1..MaxBatchSize
          /\ input \in Inputs(layer)
          /\ ckpt_dir \in BOOLEAN
          /\ faults = IF ckpt_dir THEN 0 ELSE 1
       \/ /\ CheckpointEvery(layer) > MaxItems
          /\ batch_size = 1
          /\ input = LongInput(layer)
          /\ ckpt_dir = TRUE
          /\ faults = 1
    /\ ckpt_files = <<>>
    /\ results_file = <<>>
    /\ pc = "idle"
    /\ checkpoint = EmptyCheckpoint
    /\ batches = <<>>
    /\ collected = {}
    /\ all_results = <<>>
    /\ returned = <<>>
    /\ worker_out = <<>>
    /\ raised_at = {}
    /\ fresh = TRUE
    /\ save_failed = FALSE
    /\ epoch = 0
    /\ prev = [status |-> "none", returned |-> <<>>]
    /\ NoCall
    /\ NoRetry
    /\ NoFiles
    /\ NoEvaluation

\* The driver returns result without submitting anything.
ReturnEarly(result) ==
    /\ pc' = "done"
    /\ returned' = <<result>>
    /\ batches' = <<>>
    /\ worker_out' = <<>>
    /\ checkpoint' = EmptyCheckpoint

\* The driver submits every batch of work and starts collecting.
Dispatch(work) ==
    /\ pc' = "collect"
    /\ returned' = <<>>
    /\ batches' = create_batch_iterator(work, batch_size)
    /\ worker_out' = [k \in 1..Len(batches') |-> <<>>]

\* run_layer_N_evaluation up to the submission of the batches: the success
\* filter (layers 2, 3), the checkpoint, the filter on completed_ids.
StartRun ==
    /\ pc # "collect"
    /\ prev' = [status |-> pc, returned |-> returned]
    /\ collected' = {}
    /\ all_results' = <<>>
    /\ raised_at' = {}
    /\ save_failed' = FALSE
    /\ LET successful == SuccessfulItems(layer, input)
           loaded == load_checkpoint(ckpt_dir, ckpt_files)
           ck == IF loaded # NoCheckpoint THEN loaded ELSE EmptyCheckpoint
           work == IF loaded # NoCheckpoint
                   THEN Remaining(layer, successful, loaded)
                   ELSE successful
       IN  IF layer # 1 /\ successful = <<>>
           THEN /\ ReturnEarly(NoWorkResult(layer))
                /\ UNCHANGED <<fresh, epoch>>
           ELSE /\ fresh' = (loaded = NoCheckpoint)
                /\ epoch' = IF loaded = NoCheckpoint
                            THEN Len(ckpt_files) ELSE epoch
                /\ IF work = <<>>
                   THEN ReturnEarly(ck)
                   ELSE Dispatch(work) /\ checkpoint' = ck
    /\ UNCHANGED <<others, config, store, faults>>

\* The periodic checkpoint is due when all_results has a multiple of K entries.
CheckpointDue(results) == Len(results) % CheckpointEvery(layer) = 0

\* What a save_checkpoint that raises takes of MaxFaults: nothing without
\* the directory, where open() raises every time.
WriteFault == IF ckpt_dir THEN 1 ELSE 0

\* as_completed yields batch b, whose worker returned: the result is
\* appended and, when due, the periodic checkpoint is written.
CollectReturned(b, oc) ==
    /\ pc = "collect"
    /\ b \in DOMAIN batches \ collected
    /\ faults + NotOk(oc) <= MaxFaults
    /\ faults' = faults + NotOk(oc)
    /\ \E result \in {evaluate_batch(layer, batches[b], oc)} :
       \E results \in {Append(all_results, result)} :
           /\ CheckpointDue(results) => ckpt_dir
           /\ all_results' = results
           /\ worker_out' = [worker_out EXCEPT ![b] = <<result>>]
           /\ ckpt_files' =
                 IF CheckpointDue(results)
                 THEN save_checkpoint(ckpt_files, MergeAll(checkpoint, results))
                 ELSE ckpt_files
    /\ collected' = collected \cup {b}
    /\ UNCHANGED <<others, config, ckpt_dir, results_file, pc, checkpoint, batches,
                   returned, raised_at, fresh, save_failed, epoch, prev>>

\* The same, but the periodic save_checkpoint raises: the except clause of
\* the loop catches it and appends the synthetic result of a failed batch.
CollectSaveRaises(b, oc, partial) ==
    /\ pc = "collect"
    /\ b \in DOMAIN batches \ collected
    /\ faults + NotOk(oc) + WriteFault <= MaxFaults
    /\ faults' = faults + NotOk(oc) + WriteFault
    /\ partial => ckpt_dir
    /\ LET result == evaluate_batch(layer, batches[b], oc)
           results == Append(all_results, result)
       IN  /\ CheckpointDue(results)
           /\ all_results' = Append(results, SyntheticResult(Len(batches[b])))
           /\ worker_out' = [worker_out EXCEPT ![b] = <<result>>]
    /\ ckpt_files' = save_checkpoint_raises(ckpt_files, partial)
    /\ collected' = collected \cup {b}
    /\ save_failed' = TRUE
    /\ UNCHANGED <<others, config, ckpt_dir, results_file, pc, checkpoint, batches,
                   returned, raised_at, fresh, epoch, prev>>

\* CollectRaised, had the loop no except clause: the driver raises.
CollectRaisedAborts(b) ==
    /\ pc = "collect"
    /\ b \in DOMAIN batches \ collected
    /\ faults < MaxFaults
    /\ faults' = faults + 1
    /\ raised_at' = raised_at \cup {b}
    /\ pc' = "raised"
    /\ checkpoint' = EmptyCheckpoint
    /\ batches' = <<>>
    /\ collected' = {}
    /\ all_results' = <<>>
    /\ UNCHANGED <<others, config, store, returned, worker_out, fresh, save_failed,
                   epoch, prev>>

\* as_completed yields batch b, whose future raises: the except clause
\* appends the synthetic result.
CollectRaised(b) ==
    /\ pc = "collect"
    /\ b \in DOMAIN batches \ collected
    /\ faults < MaxFaults
    /\ all_results' = Append(all_results, SyntheticResult(Len(batches[b])))
    /\ collected' = collected \cup {b}
    /\ raised_at' = raised_at \cup {b}
    /\ faults' = faults + 1
    /\ UNCHANGED <<others, config, store, pc, checkpoint, batches, returned,
                   worker_out, fresh, save_failed, epoch, prev>>

\* The driver's locals leave scope when the call ends.
Exit ==
    /\ checkpoint' = EmptyCheckpoint
    /\ batches' = <<>>
    /\ collected' = {}
    /\ all_results' = <<>>

\* final_results of the call.
\* The clock advances with the writes: its reading is their number.
FinalResults ==
    Stamp(MergeAll(checkpoint, all_results), layer, Len(ckpt_files))

\* Finish, had the driver not waited for every future.
FinishWithoutWaiting ==
    /\ pc = "collect"
    /\ ckpt_dir
    /\ ckpt_files' = save_checkpoint(ckpt_files, FinalResults)
    /\ results_file' = <<FinalResults>>
    /\ returned' = <<FinalResults>>
    /\ pc' = "done"
    /\ Exit
    /\ UNCHANGED <<others, config, ckpt_dir, ghost, prev, faults>>

\* Every future is collected: merge, stamp, final checkpoint, results file.
Finish ==
    /\ pc = "collect"
    /\ collected = DOMAIN batches
    /\ ckpt_dir
    /\ ckpt_files' = save_checkpoint(ckpt_files, FinalResults)
    /\ results_file' = <<FinalResults>>
    /\ returned' = <<FinalResults>>
    /\ pc' = "done"
    /\ Exit
    /\ UNCHANGED <<others, config, ckpt_dir, ghost, prev, faults>>

\* The final save_checkpoint raises: the driver raises.
FinishSaveRaises(partial) ==
    /\ pc = "collect"
    /\ collected = DOMAIN batches
    /\ faults + WriteFault <= MaxFaults
    /\ faults' = faults + WriteFault
    /\ partial => ckpt_dir
    /\ ckpt_files' = save_checkpoint_raises(ckpt_files, partial)
    /\ pc' = "raised"
    /\ Exit
    /\ UNCHANGED <<others, config, ckpt_dir, results_file, returned, ghost, prev>>

\* The write of the results file raises, after the final checkpoint.
FinishResultsRaises(partial) ==
    /\ pc = "collect"
    /\ collected = DOMAIN batches
    /\ ckpt_dir
    /\ faults < MaxFaults
    /\ faults' = faults + 1
    /\ ckpt_files' = save_checkpoint(ckpt_files, FinalResults)
    /\ results_file' = IF partial THEN <<Unreadable>> ELSE results_file
    /\ pc' = "raised"
    /\ Exit
    /\ UNCHANGED <<others, config, ckpt_dir, returned, ghost, prev>>

\* The driver's process is killed while it collects.
Interrupt ==
    /\ pc = "collect"
    /\ faults < MaxFaults
    /\ faults' = faults + 1
    /\ pc' = "killed"
    /\ Exit
    /\ UNCHANGED <<others, config, store, returned, ghost, prev>>

Next ==
    \/ StartRun
    \/ \E b \in DOMAIN batches :
          \E oc \in [DOMAIN batches[b] -> Outcomes] : CollectReturned(b, oc)
    \/ \E b \in DOMAIN batches :
          \E oc \in [DOMAIN batches[b] -> Outcomes], partial \in BOOLEAN :
              CollectSaveRaises(b, oc, partial)
    \/ \E b \in DOMAIN batches : CollectRaised(b)
    \/ Finish
    \/ \E partial \in BOOLEAN : FinishSaveRaises(partial)
    \/ \E partial \in BOOLEAN : FinishResultsRaises(partial)
    \/ Interrupt

Spec == Init /\ [][Next]_vars

\* as_completed yields a future: one more pass of the collecting loop.
Collects ==
    \/ \E b \in DOMAIN batches :
          \E oc \in [DOMAIN batches[b] -> Outcomes] : CollectReturned(b, oc)
    \/ \E b \in DOMAIN batches :
          \E oc \in [DOMAIN batches[b] -> Outcomes], partial \in BOOLEAN :
              CollectSaveRaises(b, oc, partial)
    \/ \E b \in DOMAIN batches : CollectRaised(b)

\* The statements after the loop run to the return or to an exception.
Finishes ==
    \/ Finish
    \/ \E partial \in BOOLEAN : FinishSaveRaises(partial)
    \/ \E partial \in BOOLEAN : FinishResultsRaises(partial)

\* The driver whose workers all end: as_completed yields every future that
\* is done and the driver's thread is not starved, so the loop takes each
\* pass it can take and the statements after it are executed.
LiveSpec == Init /\ [][Next]_vars /\ WF_vars(Collects) /\ WF_vars(Finishes)

\* The driver of layer 2 or 3 on a list that gives three batches, the last
\* of them shorter: as many batches as the periodic checkpoint of these
\* layers waits for.
OrderItems == 2 * MaxBatchSize + 1

OrderInit ==
    /\ layer \in Layers \ {1}
    /\ batch_size = MaxBatchSize
    /\ input = [i \in 1..OrderItems |-> PlainItem(layer, i)]
    /\ ckpt_dir = TRUE
    /\ faults = 0
    /\ ckpt_files = <<>>
    /\ results_file = <<>>
    /\ pc = "idle"
    /\ checkpoint = EmptyCheckpoint
    /\ batches = <<>>
    /\ collected = {}
    /\ all_results = <<>>
    /\ returned = <<>>
    /\ worker_out = <<>>
    /\ raised_at = {}
    /\ fresh = TRUE
    /\ save_failed = FALSE
    /\ epoch = 0
    /\ prev = [status |-> "none", returned |-> <<>>]
    /\ NoCall
    /\ NoRetry
    /\ NoFiles
    /\ NoEvaluation

OrderSpec == OrderInit /\ [][Next]_vars

\* The checkpoint an earlier, completed run of the layer left in the
\* directory: that run's input was one other item, evaluated with success.
EarlierCheckpoint(L) ==
    Stamp(MergeAll(EmptyCheckpoint,
                   <<evaluate_batch(L, <<PlainItem(L, MaxItems + 1)>>,
                                    <<"ok">>)>>),
          L, 0)

\* The driver called on an input list while the checkpoint directory holds
\* the checkpoint of an earlier run on another list.
ResumeInit ==
    /\ layer \in Layers
    /\ batch_size \in 1..MaxBatchSize
    /\ input \in Inputs(layer)
    /\ ckpt_dir = TRUE
    /\ faults = 0
    /\ ckpt_files = <<EarlierCheckpoint(layer)>>
    /\ results_file = <<>>
    /\ pc = "idle"
    /\ checkpoint = EmptyCheckpoint
    /\ batches = <<>>
    /\ collected = {}
    /\ all_results = <<>>
    /\ returned = <<>>
    /\ worker_out = <<>>
    /\ raised_at = {}
    /\ fresh = TRUE
    /\ save_failed = FALSE
    /\ epoch = 0
    /\ prev = [status |-> "none", returned |-> <<>>]
    /\ NoCall
    /\ NoRetry
    /\ NoFiles
    /\ NoEvaluation

ResumeSpec == ResumeInit /\ [][Next]_vars

\* ------------------------------------- utility functions on their own
\* The variables of a driver's call, and their values while none runs.
run == <<config, ckpt_files, results_file, pc, checkpoint, batches,
         collected, all_results, returned, ghost, prev, faults>>

NoRun ==
    /\ layer = 1
    /\ batch_size = 1
    /\ input = <<>>
    /\ ckpt_files = <<>>
    /\ results_file = <<>>
    /\ pc = "idle"
    /\ checkpoint = EmptyCheckpoint
    /\ batches = <<>>
    /\ collected = {}
    /\ all_results = <<>>
    /\ returned = <<>>
    /\ worker_out = <<>>
    /\ raised_at = {}
    /\ fresh = TRUE
    /\ save_failed = FALSE
    /\ epoch = 0
    /\ prev = [status |-> "none", returned |-> <<>>]
    /\ faults = 0

\* What a utility function called on its own leaves alone, and its values.
but_call == <<run, ckpt_dir, retry, files, evaluation>>
OnlyCall == NoRun /\ ckpt_dir = TRUE /\ NoRetry /\ NoFiles /\ NoEvaluation

\* The dict d with the keys in S only.
Restrict(d, S) == [k \in S |-> d[k]]

\* Sequences over S of length at most n.
SeqsUpTo(S, n) == UNION {[1..k -> S] : k \in 0..n}

\* ---- merge_results
\* Summaries of partial results: any of the four counters may be missing.
Summaries ==
    LET full == [total_tests |-> 2, successful |-> 1, failed |-> 1,
                 execution_time |-> 3]
    IN  {Restrict(full, S) :
            S \in {{}, {"total_tests"}, {"successful", "failed"},
                   DOMAIN full}}

\* Partial results: any of 'test_results', 'errors', 'summary' may be
\* missing.
PartialResults ==
    LET full == [test_results : {<<>>, <<1>>, <<2, 3>>},
                 errors : {<<7>>},
                 summary : Summaries]
    IN  {Restrict(r, S) :
            r \in full, S \in SUBSET {"test_results", "errors", "summary"}}

\* A call of merge_results: what it returns, and its argument as the call
\* leaves it (merged and its lists are new objects; extend() and += write
\* to them alone).
MergeCall(results_list) ==
    [value |-> merge_results(results_list), inputs |-> results_list]

MergeInit ==
    /\ arg \in SeqsUpTo(PartialResults, MaxParts)
    /\ out = <<>>
    /\ OnlyCall

Merge ==
    /\ out = <<>>
    /\ out' = <<MergeCall(arg)>>
    /\ UNCHANGED <<arg, but_call>>

MergeNext == Merge

MergeSpec == MergeInit /\ [][MergeNext]_vars

\* ---- create_batch_iterator
BatchInit ==
    /\ arg \in [items : SeqsUpTo({1, 2}, MaxLen), batch_size : 1..MaxSize]
    /\ out = <<>>
    /\ OnlyCall

Batch ==
    /\ out = <<>>
    /\ out' = <<create_batch_iterator(arg.items, arg.batch_size)>>
    /\ UNCHANGED <<arg, but_call>>

BatchNext == Batch

BatchSpec == BatchInit /\ [][BatchNext]_vars

\* ---- retry_with_backoff, async_retry_with_backoff
\* The exceptions the callable raises (instances of Exception: what the
\* wrappers' 'except Exception' catches), by type and message.
Errors ==
    {[type |-> "ValueError", message |-> "a"],
     [type |-> "RuntimeError", message |-> "b"]}

\* last_exception = None.
NoException == [type |-> "NoneType", message |-> ""]

\* How an invocation of the callable ends: it returns a value or raises.
Returns(v) == [ok |-> TRUE, value |-> v]
Raises(e) == [ok |-> FALSE, error |-> e]
Endings == {Returns(1)} \cup {Raises(e) : e \in Errors}

\* A wrapper as it is entered: last_exception = None, current_delay = delay,
\* attempt = 0; nothing invoked, no sleep requested, not ended.
Entered(d) ==
    [pc |-> "try", attempt |-> 0, current_delay |-> d,
     last_exception |-> NoException, calls |-> 0, slept |-> <<>>,
     ended |-> <<>>]

\* The wrapper has returned or raised.
Ended(w) == w.pc \in {"returned", "raised"}

\* wrapper's try, had the first exception been kept instead of the last.
wrapper_try_keeps_first(w, m, ending) ==
    LET n == [w EXCEPT !.calls = @ + 1]
        e == IF w.last_exception = NoException THEN ending.error
             ELSE w.last_exception
    IN  IF ending.ok
        THEN [n EXCEPT !.pc = "returned", !.ended = <<ending>>]
        ELSE IF w.attempt = m
             THEN [n EXCEPT !.last_exception = e, !.pc = "raised",
                            !.ended = <<Raises(e)>>]
             ELSE [n EXCEPT !.last_exception = e, !.pc = "sleep"]

\* wrapper's try, had 'return' been left out before func(*args, **kwargs):
\* the loop goes on after a success.
wrapper_try_without_return(w, m, ending) ==
    LET n == [w EXCEPT !.calls = @ + 1]
    IN  IF ending.ok
        THEN IF w.attempt = m
             THEN [n EXCEPT !.pc = "raised",
                            !.ended = <<Raises(w.last_exception)>>]
             ELSE [n EXCEPT !.attempt = @ + 1]
        ELSE IF w.attempt = m
             THEN [n EXCEPT !.last_exception = ending.error, !.pc = "raised",
                            !.ended = <<Raises(ending.error)>>]
             ELSE [n EXCEPT !.last_exception = ending.error, !.pc = "sleep"]

\* One turn of wrapper's loop up to the sleep: func is invoked and ends as
\* ending says. A value is returned at once; an exception is kept in
\* last_exception, and after the attempt numbered max_retries the loop is
\* left and last_exception raised.
wrapper_try(w, m, ending) ==
    LET n == [w EXCEPT !.calls = @ + 1]
    IN  IF ending.ok
        THEN [n EXCEPT !.pc = "returned", !.ended = <<ending>>]
        ELSE IF w.attempt = m
             THEN [n EXCEPT !.last_exception = ending.error, !.pc = "raised",
                            !.ended = <<Raises(ending.error)>>]
             ELSE [n EXCEPT !.last_exception = ending.error, !.pc = "sleep"]

\* wrapper's sleep, had current_delay been left as it is.
wrapper_sleep_constant(w, factor) ==
    [w EXCEPT !.slept = Append(@, w.current_delay),
              !.attempt = @ + 1,
              !.pc = "try"]

\* The rest of the turn: time.sleep(current_delay);
\* current_delay *= backoff_factor; and the next attempt.
wrapper_sleep(w, factor) ==
    [w EXCEPT !.slept = Append(@, w.current_delay),
              !.current_delay = @ * factor,
              !.attempt = @ + 1,
              !.pc = "try"]

\* async_wrapper's try, had it given up one attempt early.
async_wrapper_try_one_less(w, m, ending) ==
    LET n == [w EXCEPT !.calls = @ + 1]
    IN  IF ending.ok
        THEN [n EXCEPT !.pc = "returned", !.ended = <<ending>>]
        ELSE IF w.attempt >= m - 1
             THEN [n EXCEPT !.last_exception = ending.error, !.pc = "raised",
                            !.ended = <<Raises(ending.error)>>]
             ELSE [n EXCEPT !.last_exception = ending.error, !.pc = "sleep"]

\* The same turn of async_wrapper's loop: await func(*args, **kwargs).
async_wrapper_try(w, m, ending) ==
    LET n == [w EXCEPT !.calls = @ + 1]
    IN  IF ending.ok
        THEN [n EXCEPT !.pc = "returned", !.ended = <<ending>>]
        ELSE IF w.attempt = m
             THEN [n EXCEPT !.last_exception = ending.error, !.pc = "raised",
                            !.ended = <<Raises(ending.error)>>]
             ELSE [n EXCEPT !.last_exception = ending.error, !.pc = "sleep"]

\* await asyncio.sleep(current_delay); current_delay *= backoff_factor.
async_wrapper_sleep(w, factor) ==
    [w EXCEPT !.slept = Append(@, w.current_delay),
              !.current_delay = @ * factor,
              !.attempt = @ + 1,
              !.pc = "try"]

but_retry == <<run, ckpt_dir, call, files, evaluation>>
OnlyRetry == NoRun /\ ckpt_dir = TRUE /\ NoCall /\ NoFiles /\ NoEvaluation

RetryInit ==
    /\ max_retries \in 0..MaxRetries
    /\ delay \in 1..MaxDelay
    /\ backoff_factor \in 1..MaxFactor
    /\ script \in [1..(max_retries + 1) -> Endings]
    /\ sync = Entered(delay)
    /\ async = Entered(delay)
    /\ OnlyRetry

SyncTry ==
    /\ sync.pc = "try"
    /\ sync' = wrapper_try(sync, max_retries, script[sync.calls + 1])
    /\ UNCHANGED <<max_retries, delay, backoff_factor, script, async,
                   but_retry>>

SyncSleep ==
    /\ sync.pc = "sleep"
    /\ sync' = wrapper_sleep(sync, backoff_factor)
    /\ UNCHANGED <<max_retries, delay, backoff_factor, script, async,
                   but_retry>>

AsyncTry ==
    /\ async.pc = "try"
    /\ async' = async_wrapper_try(async, max_retries, script[async.calls + 1])
    /\ UNCHANGED <<max_retries, delay, backoff_factor, script, sync,
                   but_retry>>

AsyncSleep ==
    /\ async.pc = "sleep"
    /\ async' = async_wrapper_sleep(async, backoff_factor)
    /\ UNCHANGED <<max_retries, delay, backoff_factor, script, sync,
                   but_retry>>

RetryNext == SyncTry \/ SyncSleep \/ AsyncTry \/ AsyncSleep

RetrySpec == RetryInit /\ [][RetryNext]_vars

\* ---- save_checkpoint, load_checkpoint on the files of the directory
\* f"layer_{layer}_checkpoint_{timestamp}.json", the timestamp being
\* strftime("%Y%m%d_%H%M%S") of the clock: one name per layer and second.
FileName(L, t) == [layer |-> L, timestamp |-> t]

\* What the n-th call of save_checkpoint is given to write.
DataOf(n) == [test_results |-> <<n>>]

\* The directory d with content written to the file of that name, created
\* if there is none and truncated if there is one: open(filepath, 'w').
WriteFile(d, name, content) ==
    [f \in DOMAIN d \cup {name} |-> IF f = name THEN content ELSE d[f]]

\* save_checkpoint(checkpoint_dir, layer, data) at second t.
save_checkpoint_file(d, L, t, data) == WriteFile(d, FileName(L, t), data)

\* checkpoint_files: the names that start with f"layer_{layer}_checkpoint_".
checkpoint_files(d, L) == {f \in DOMAIN d : f.layer = L}

\* sorted(checkpoint_files)[0] in place of [-1].
latest_file_oldest(d, L) ==
    CHOOSE f \in checkpoint_files(d, L) :
        \A g \in checkpoint_files(d, L) : f.timestamp <= g.timestamp

\* sorted(checkpoint_files)[-1]: the timestamps have one width, so the
\* order of the names is the order of the seconds.
latest_file(d, L) ==
    CHOOSE f \in checkpoint_files(d, L) :
        \A g \in checkpoint_files(d, L) : g.timestamp <= f.timestamp

\* load_checkpoint(checkpoint_dir, layer) on the files of the directory.
load_checkpoint_file(exists, d, L) ==
    IF ~exists THEN NoCheckpoint
    ELSE IF checkpoint_files(d, L) = {} THEN NoCheckpoint
    ELSE IF IsReadable(d[latest_file(d, L)]) THEN d[latest_file(d, L)]
         ELSE NoCheckpoint

but_files == <<run, call, retry, evaluation>>
OnlyFiles == NoRun /\ NoCall /\ NoRetry /\ NoEvaluation

FilesInit ==
    /\ ckpt_dir \in BOOLEAN
    /\ disk = <<>>
    /\ now = 0
    /\ saved = <<>>
    /\ last_load = <<>>
    /\ OnlyFiles

\* A second passes.
Tick ==
    /\ now < MaxClock
    /\ now' = now + 1
    /\ UNCHANGED <<ckpt_dir, disk, saved, last_load, but_files>>

\* save_checkpoint for layer L returns.
Save(L) ==
    /\ ckpt_dir
    /\ Len(saved) < MaxSaves
    /\ LET data == DataOf(Len(saved) + 1)
       IN  /\ disk' = save_checkpoint_file(disk, L, now, data)
           /\ saved' = Append(saved, [layer |-> L, timestamp |-> now,
                                      data |-> data])
    /\ UNCHANGED <<ckpt_dir, now, last_load, but_files>>

\* save_checkpoint for layer L raises: in open(), which leaves the
\* directory as it is (always so when it does not exist), or in
\* json.dump, which leaves the file unreadable.
SaveRaises(L, partial) ==
    /\ partial => ckpt_dir /\ Len(saved) < MaxSaves
    /\ disk' = IF partial
               THEN save_checkpoint_file(disk, L, now, Unreadable)
               ELSE disk
    /\ saved' = IF partial
                THEN Append(saved, [layer |-> L, timestamp |-> now,
                                    data |-> Unreadable])
                ELSE saved
    /\ UNCHANGED <<ckpt_dir, now, last_load, but_files>>

\* load_checkpoint for layer L.
Load(L) ==
    /\ last_load' = <<[layer |-> L,
                    value |-> load_checkpoint_file(ckpt_dir, disk, L)]>>
    /\ UNCHANGED <<ckpt_dir, disk, now, saved, but_files>>

FilesNext ==
    \/ Tick
    \/ \E L \in Layers : Save(L)
    \/ \E L \in Layers, partial \in BOOLEAN : SaveRaises(L, partial)
    \/ \E L \in Layers : Load(L)

FilesSpec == FilesInit /\ [][FilesNext]_vars

\* ---------------------------------------------- the item evaluators
\* The exceptions the collaborators raise, by type and message.
ExceptionTypes ==
    {"ValueError", "KeyError", "AttributeError", "TypeError",
     "RuntimeError", "JSONDecodeError"}

Raised == {[type |-> t, message |-> m] : t \in ExceptionTypes,
                                          m \in {"a", "b"}}

\* The classes of the exceptions raised by the package itself.
WorkFlowGenerationFailedBases == {"WorkFlowGenerationFailed", "Exception"}

\* The classes an exception of the type is an instance of.
Bases(type) ==
    CASE type = "JSONDecodeError" -> {type, "ValueError", "Exception"}
      [] type = "WorkFlowGenerationFailed" -> WorkFlowGenerationFailedBases
      [] OTHER -> {type, "Exception"}

\* _is_expected_exception: isinstance(exception, expected_types).
expected_types == {"ValueError", "KeyError", "AttributeError", "TypeError"}
is_expected_exception(exception) ==
    Bases(exception.type) \cap expected_types # {}

\* capture_exception_details: type(exception).__name__, str(exception)
\* and the classification.
capture_exception_details(exception) ==
    [type |-> exception.type,
     message |-> exception.message,
     is_expected |-> is_expected_exception(exception)]

\* str() of an identifier that may be None.
IdText(id) == IF id = NoId THEN "None" ELSE ToString(id)

\* ---- Layer 1: StructureEvaluator.evaluate_workflow_structure
\* @retry_with_backoff(max_retries=3, delay=2.0), backoff_factor=2.0.
StructureRetries == 3
StructureDelay == 2
StructureFactor == 2

\* How Parameter(**inp), generator.generate_workflow and
\* self._evaluate_with_llm end.
ParameterEndings ==
    {Returns("parameters")} \cup
    {Raises(e) : e \in {r \in Raised : r.type = "TypeError"}}
GeneratorEndings == {Returns("workflow")} \cup {Raises(e) : e \in Raised}
LlmEndings == {Returns("scores")} \cup {Raises(e) : e \in Raised}

\* raise WorkFlowGenerationFailed(f"Failed to generate workflow for
\* {workflow_data.get('workflow_id')}: {e}").
WorkFlowGenerationFailed(workflow, e) ==
    [type |-> "WorkFlowGenerationFailed",
     message |-> "Failed to generate workflow for "
                 \o IdText(workflow.workflow_id) \o ": " \o e.message]

\* The body of evaluate_workflow_structure, by how its collaborators end.
\* Every exception raised inside the outer try is caught by its
\* 'except Exception' and returned as a failure record; the generator's
\* exception is first replaced by WorkFlowGenerationFailed.
evaluate_workflow_structure(workflow, parameters, generator, llm) ==
    LET failure(e) ==
            [test_id |-> workflow.workflow_id,
             success |-> FALSE,
             error |-> capture_exception_details(e)]
    IN  IF ~parameters.ok THEN Returns(failure(parameters.error))
        ELSE IF ~generator.ok
        THEN Returns(failure(
                 WorkFlowGenerationFailed(workflow, generator.error)))
        ELSE IF ~llm.ok THEN Returns(failure(llm.error))
        ELSE Returns([test_id |-> workflow.workflow_id,
                      success |-> TRUE,
                      workflow_json |-> generator.value,
                      structure_evaluation |-> llm.value])

but_structure == <<run, ckpt_dir, call, retry, files, execution_eval,
                   pipeline, dispatch>>
OnlyStructure ==
    /\ NoRun /\ ckpt_dir = TRUE /\ NoCall /\ NoRetry /\ NoFiles
    /\ NoExecution /\ NoPipeline /\ NoDispatch

StructureInit ==
    /\ workflow_data \in {TestItem(i, declared) : i \in 1..MaxItems,
                                                  declared \in BOOLEAN}
    /\ generated = <<>>
    /\ structure = Entered(StructureDelay)
    /\ OnlyStructure

\* One turn of the wrapper around evaluate_workflow_structure: the body
\* runs to its end, or the wrapper sleeps after an exception of the body.
StructureTurn ==
    /\ structure.pc \in {"try", "sleep"}
    /\ IF structure.pc = "sleep"
       THEN /\ structure' = wrapper_sleep(structure, StructureFactor)
            /\ UNCHANGED generated
       ELSE \E parameters \in ParameterEndings,
               generator \in GeneratorEndings, llm \in LlmEndings :
               /\ structure' =
                      wrapper_try(structure, StructureRetries,
                          evaluate_workflow_structure(workflow_data,
                              parameters, generator, llm))
               /\ generated' = IF parameters.ok
                               THEN Append(generated, generator)
                               ELSE generated
    /\ UNCHANGED <<workflow_data, but_structure>>

StructureNext == StructureTurn

StructureSpec == StructureInit /\ [][StructureNext]_vars

\* ---- Layer 2: ExecutionEvaluator.execute_workflow_with_test_inputs
\* @retry_with_backoff(max_retries=2, delay=1.0), backoff_factor=2.0.
ExecutionRetries == 2
ExecutionDelay == 1
ExecutionFactor == 2

\* _generate_test_inputs returns three input sets, whichever branch it
\* takes, or raises KeyError on a declared input without a 'name'.
NumInputSets == 3
GenerateInputsEndings ==
    {Returns([i \in 1..NumInputSets |-> i]),
     Raises([type |-> "KeyError", message |-> "'name'"])}

\* How WorkFlowGraph.from_dict and the execution of the workflow end.
ExecutionErrors ==
    {[type |-> t, message |-> "a"] :
        t \in {"ValueError", "KeyError", "RuntimeError"}}
ExecutionEndings ==
    {Returns("output")} \cup {Raises(e) : e \in ExecutionErrors}

\* The body of _execute_single_workflow, had its except clause returned.
execute_single_workflow_swallows(ending) ==
    IF ending.ok THEN ending ELSE Returns("failed")

\* The body of _execute_single_workflow: whatever is raised inside its try
\* is replaced by RuntimeError(f"Workflow execution failed: {str(e)}").
execute_single_workflow(ending) ==
    IF ending.ok THEN ending
    ELSE Raises([type |-> "RuntimeError",
                 message |-> "Workflow execution failed: "
                             \o ending.error.message])

\* The entry appended to execution_results for input set i, by how the
\* decorated _execute_single_workflow ended.
ExecutionResult(i, ending) ==
    IF ending.ok
    THEN [input_set |-> i, success |-> TRUE, output |-> ending.value]
    ELSE [input_set |-> i, success |-> FALSE,
          error |-> capture_exception_details(ending.error)]

\* _analyze_errors' entry of a type that has not been seen.
NewErrorType ==
    [count |-> 0, expected_count |-> 0, unexpected_count |-> 0,
     examples |-> <<>>]

\* One turn of _analyze_errors' loop over failed_executions.
AnalyzeOne(acc, execution) ==
    LET error_info == Get(execution, "error", <<>>)
        error_type == Get(error_info, "type", "Unknown")
        is_expected == Get(error_info, "is_expected", FALSE)
        old == IF error_type \in DOMAIN acc.error_types
               THEN acc.error_types[error_type] ELSE NewErrorType
        new == [count |-> old.count + 1,
                expected_count |->
                    old.expected_count + (IF is_expected THEN 1 ELSE 0),
                unexpected_count |->
                    old.unexpected_count + (IF is_expected THEN 0 ELSE 1),
                examples |->
                    IF Len(old.examples) < 3
                    THEN Append(old.examples,
                                Get(error_info, "message", ""))
                    ELSE old.examples]
    IN  [expected_errors |->
             acc.expected_errors + (IF is_expected THEN 1 ELSE 0),
         unexpected_errors |->
             acc.unexpected_errors + (IF is_expected THEN 0 ELSE 1),
         error_types |->
             [t \in DOMAIN acc.error_types \cup {error_type} |->
                 IF t = error_type THEN new ELSE acc.error_types[t]]]

RECURSIVE AnalyzeFrom(_, _, _)
AnalyzeFrom(failed_executions, i, acc) ==
    IF i > Len(failed_executions) THEN acc
    ELSE AnalyzeFrom(failed_executions, i + 1,
                     AnalyzeOne(acc, failed_executions[i]))

\* _analyze_errors(failed_executions).
analyze_errors(failed_executions) ==
    IF failed_executions = <<>>
    THEN [total_errors |-> 0, error_types |-> <<>>]
    ELSE LET acc == AnalyzeFrom(failed_executions, 1,
                        [expected_errors |-> 0, unexpected_errors |-> 0,
                         error_types |-> <<>>])
         IN  [total_errors |-> Len(failed_executions),
              expected_errors |-> acc.expected_errors,
              unexpected_errors |-> acc.unexpected_errors,
              error_types |-> acc.error_types]

\* The record execute_workflow_with_test_inputs returns after its loop,
\* had overall_success asked for every input set to succeed.
ExecutionRecordAllSucceeded(record, results) ==
    LET successful_executions == SelectSeq(results, LAMBDA r : r.success)
        failed_executions == SelectSeq(results, LAMBDA r : ~r.success)
    IN  [test_id |-> record.test_id,
         overall_success |-> failed_executions = <<>>,
         execution_results |-> results,
         statistics |->
             [total_executions |-> Len(results),
              successful_executions |-> Len(successful_executions),
              failed_executions |-> Len(failed_executions),
              success_rate |-> <<Len(successful_executions),
                                 Len(results)>>],
         error_analysis |-> analyze_errors(failed_executions)]

\* The record execute_workflow_with_test_inputs returns after its loop
\* (the times left out); success_rate is the pair it divides, 0 without
\* results.
ExecutionRecord(record, results) ==
    LET successful_executions == SelectSeq(results, LAMBDA r : r.success)
        failed_executions == SelectSeq(results, LAMBDA r : ~r.success)
    IN  [test_id |-> record.test_id,
         overall_success |-> Len(successful_executions) > 0,
         execution_results |-> results,
         statistics |->
             [total_executions |-> Len(results),
              successful_executions |-> Len(successful_executions),
              failed_executions |-> Len(failed_executions),
              success_rate |-> <<Len(successful_executions),
                                 Len(results)>>],
         error_analysis |-> analyze_errors(failed_executions)]

\* The record of the outer except clause.
ExecutionFailure(record, e) ==
    [test_id |-> record.test_id,
     overall_success |-> FALSE,
     error |-> capture_exception_details(e)]

but_execution == <<run, ckpt_dir, call, retry, files, structure_eval,
                   pipeline, dispatch>>
OnlyExecution ==
    /\ NoRun /\ ckpt_dir = TRUE /\ NoCall /\ NoRetry /\ NoFiles
    /\ NoStructure /\ NoPipeline /\ NoDispatch

ExecutionInit ==
    /\ l1_record \in {L1Record(id, TRUE, wf) :
                         id \in 0..MaxItems, wf \in BOOLEAN}
    /\ exec_pc = "start"
    /\ test_inputs = <<>>
    /\ execution_results = <<>>
    /\ executor = <<>>
    /\ executed = <<>>
    /\ execution_out = <<>>
    /\ OnlyExecution

\* Up to the loop: without workflow_json ValueError is raised, and
\* _generate_test_inputs may raise; the outer except returns the record.
ExecutionStart ==
    /\ exec_pc = "start"
    /\ \E inputs \in GenerateInputsEndings :
          LET e == IF ~l1_record.workflow_json
                   THEN Raises([type |-> "ValueError",
                        message |-> "No workflow JSON found in test data"])
                   ELSE inputs
          IN  IF e.ok
              THEN /\ exec_pc' = "loop"
                   /\ test_inputs' = e.value
                   /\ executor' = Entered(ExecutionDelay)
                   /\ executed' = <<<<>>>>
                   /\ UNCHANGED execution_out
              ELSE /\ exec_pc' = "done"
                   /\ execution_out' =
                          <<ExecutionFailure(l1_record, e.error)>>
                   /\ UNCHANGED <<test_inputs, executor, executed>>
    /\ UNCHANGED <<l1_record, execution_results, but_execution>>

\* One attempt of the decorated _execute_single_workflow on the input set
\* at hand.
ExecutionTry ==
    /\ exec_pc = "loop"
    /\ executor.pc = "try"
    /\ \E ending \in ExecutionEndings :
          /\ executor' = wrapper_try(executor, ExecutionRetries,
                                     execute_single_workflow(ending))
          /\ executed' = [executed EXCEPT ![Len(executed)] =
                                              Append(@, ending)]
    /\ UNCHANGED <<l1_record, exec_pc, test_inputs, execution_results,
                   execution_out, but_execution>>

\* The wrapper sleeps before the next attempt.
ExecutionSleep ==
    /\ exec_pc = "loop"
    /\ executor.pc = "sleep"
    /\ executor' = wrapper_sleep(executor, ExecutionFactor)
    /\ UNCHANGED <<l1_record, exec_pc, test_inputs, execution_results,
                   executed, execution_out, but_execution>>

\* The decorated call has ended: its entry is appended, and the loop goes
\* on to the next input set or, after the last, the record is returned.
ExecutionCollect ==
    /\ exec_pc = "loop"
    /\ Ended(executor)
    /\ LET i == Len(execution_results) + 1
           results == Append(execution_results,
                             ExecutionResult(i, executor.ended[1]))
       IN  /\ execution_results' = results
           /\ IF i < Len(test_inputs)
              THEN /\ executor' = Entered(ExecutionDelay)
                   /\ executed' = Append(executed, <<>>)
                   /\ UNCHANGED <<exec_pc, execution_out>>
              ELSE /\ exec_pc' = "done"
                   /\ execution_out' =
                          <<ExecutionRecord(l1_record, results)>>
                   /\ UNCHANGED <<executor, executed>>
    /\ UNCHANGED <<l1_record, test_inputs, but_execution>>

ExecutionNext ==
    \/ ExecutionStart
    \/ ExecutionTry
    \/ ExecutionSleep
    \/ ExecutionCollect

ExecutionSpec == ExecutionInit /\ [][ExecutionNext]_vars

\* ---- Layer 3: OutputQualityEvaluator._aggregate_evaluations
\* Scores are in tenths of a point (8.5 is 85); a quotient is kept as the
\* pair it divides.
Ratio(n, d) == [num |-> n, den |-> d]
RatioSum(a, b) == Ratio(a.num * b.den + b.num * a.den, a.den * b.den)
RatioAtLeast(a, tenths) == a.num >= tenths * a.den

\* _get_quality_assessment, had its comparisons been strict.
get_quality_assessment_strict(overall_score) ==
    IF overall_score.num > 80 * overall_score.den THEN "Excellent"
    ELSE IF overall_score.num > 70 * overall_score.den THEN "Good"
    ELSE IF overall_score.num > 60 * overall_score.den THEN "Satisfactory"
    ELSE IF overall_score.num > 50 * overall_score.den
    THEN "Below Average"
    ELSE "Poor"

\* _get_quality_assessment(overall_score).
get_quality_assessment(overall_score) ==
    IF RatioAtLeast(overall_score, 80) THEN "Excellent"
    ELSE IF RatioAtLeast(overall_score, 70) THEN "Good"
    ELSE IF RatioAtLeast(overall_score, 60) THEN "Satisfactory"
    ELSE IF RatioAtLeast(overall_score, 50) THEN "Below Average"
    ELSE "Poor"

\* criteria, in the order of the list.
criteria ==
    <<"task_completion", "content_consistency", "diversity", "usefulness">>

\* The individual evaluations evaluate_output_quality collects: what
\* _evaluate_single_output returned, with a score for each criterion, or
\* the record of the exception it raised.
Scores == {70, 85}
FailedEvaluation == [evaluation_success |-> FALSE]
IndividualEvaluations ==
    {FailedEvaluation} \cup
    {[evaluation_success |-> TRUE, quality_scores |-> q] :
        q \in [Range(criteria) -> Scores]}

RECURSIVE Sum(_)
\* sum(scores).
Sum(scores) ==
    IF scores = <<>> THEN 0 ELSE Head(scores) + Sum(Tail(scores))

\* min(scores), max(scores).
Min(scores) == CHOOSE x \in Range(scores) : \A y \in Range(scores) : x <= y
Max(scores) == CHOOSE x \in Range(scores) : \A y \in Range(scores) : x >= y

\* scores: the criterion's score of each evaluation that has one, in the
\* order of the evaluations.
ScoresOf(evaluations, criterion) ==
    LET has == SelectSeq(evaluations,
                   LAMBDA e : criterion
                                \in DOMAIN Get(e, "quality_scores", <<>>))
    IN  [i \in 1..Len(has) |-> has[i].quality_scores[criterion]]

\* aggregated_scores[criterion], had score_variance been the spread about
\* the first score.
ScoreStatisticsFromFirst(scores) ==
    [average_score |-> Ratio(Sum(scores), Len(scores)),
     min_score |-> Min(scores),
     max_score |-> Max(scores),
     score_variance |-> IF Len(scores) > 1 THEN Max(scores) - scores[1]
                        ELSE 0]

\* aggregated_scores[criterion] (the explanations left out).
ScoreStatistics(scores) ==
    [average_score |-> Ratio(Sum(scores), Len(scores)),
     min_score |-> Min(scores),
     max_score |-> Max(scores),
     score_variance |-> IF Len(scores) > 1 THEN Max(scores) - Min(scores)
                        ELSE 0]

RECURSIVE SumOfAverages(_, _)
\* sum(scores['average_score'] for scores in aggregated_scores.values()).
SumOfAverages(aggregated_scores, cs) ==
    IF cs = <<>> THEN Ratio(0, 1)
    ELSE RatioSum(aggregated_scores[Head(cs)].average_score,
                  SumOfAverages(aggregated_scores, Tail(cs)))

\* _aggregate_evaluations(evaluations).
aggregate_evaluations(evaluations) ==
    LET successful_evaluations ==
            SelectSeq(evaluations,
                      LAMBDA e : Get(e, "evaluation_success", FALSE))
        scored == SelectSeq(criteria,
                      LAMBDA c : ScoresOf(successful_evaluations, c) # <<>>)
        aggregated_scores ==
            [c \in Range(scored) |->
                ScoreStatistics(ScoresOf(successful_evaluations, c))]
        sum == SumOfAverages(aggregated_scores, scored)
        overall_average ==
            IF scored # <<>> THEN Ratio(sum.num, sum.den * Len(scored))
            ELSE Ratio(0, 1)
    IN  IF successful_evaluations = <<>>
        THEN [aggregation_success |-> FALSE]
        ELSE [aggregation_success |-> TRUE,
              total_evaluations |-> Len(evaluations),
              successful_evaluations |-> Len(successful_evaluations),
              aggregated_scores |-> aggregated_scores,
              overall_average_score |-> overall_average,
              quality_assessment |->
                  get_quality_assessment(overall_average)]

AggregateInit ==
    /\ arg \in SeqsUpTo(IndividualEvaluations, MaxEvaluations)
    /\ out = <<>>
    /\ OnlyCall

Aggregate ==
    /\ out = <<>>
    /\ out' = <<aggregate_evaluations(arg)>>
    /\ UNCHANGED <<arg, but_call>>

AggregateNext == Aggregate

AggregateSpec == AggregateInit /\ [][AggregateNext]_vars

\* ---- _get_quality_assessment on overall scores of 0 to 10 points, in
\* tenths and in twentieths.
AssessInit ==
    /\ arg \in {Ratio(n, d) : n \in 0..(2 * MaxScore), d \in 1..2}
    /\ arg.num <= MaxScore * arg.den
    /\ out = <<>>
    /\ OnlyCall

Assess ==
    /\ out = <<>>
    /\ out' = <<get_quality_assessment(arg)>>
    /\ UNCHANGED <<arg, but_call>>

AssessNext == Assess

AssessSpec == AssessInit /\ [][AssessNext]_vars

\* ------------------------------------------------- the coordinator
\* What a driver of layer L returns at time t, by the success of the
\* records it holds.
LayerResult(L, oks, t) ==
    Stamp([test_results |->
               [i \in 1..Len(oks) |-> EvalRecord(L, PlainItem(L, i), oks[i])],
           errors |-> <<>>,
           summary |-> [total_tests |-> Len(oks), successful |-> Len(oks),
                        failed |-> 0, execution_time |-> Len(oks)]],
          L, t)

\* The results of this run's drivers, and the results files an earlier
\* run has left.
DriverResults(L) ==
    {LayerResult(L, oks, 1) : oks \in SeqsUpTo(BOOLEAN, MaxRecords)}
EarlierFiles(L) ==
    {<<>>, <<Unreadable>>}
    \cup {<<LayerResult(L, <<ok>>, 0)>> : ok \in BOOLEAN}

\* config.layers_to_run: the layers asked for, in any order.
LayerLists ==
    {s \in SeqsUpTo(Layers, 3) :
        \A i, j \in DOMAIN s : i # j => s[i] # s[j]}

\* _load_layer_results(layer): the content of the results file, or None
\* when it is missing or cannot be parsed.
load_layer_results(dir, L) ==
    IF dir[L] # <<>> /\ IsReadable(dir[L][1]) THEN dir[L] ELSE <<>>

\* The prior layer's result, had the results file been read whenever the
\* layer is run.
PriorResultsFromFile(locals, dir, L) == load_layer_results(dir, L)

\* 'if layer_N_results is None: layer_N_results = self._load_layer_results(N)'.
PriorResults(locals, dir, L) ==
    IF locals[L] = <<>> THEN load_layer_results(dir, L) ELSE locals[L]

\* _print_layer_summary(layer, results) raises ZeroDivisionError: for
\* layer 2 it divides by the number of test_results with overall_success,
\* whenever there are test_results.
print_layer_summary_raises(L, result) ==
    /\ L = 2
    /\ Get(result, "test_results", <<>>) # <<>>
    /\ \A i \in DOMAIN result.test_results :
          ~Get(result.test_results[i], "overall_success", FALSE)

\* _generate_final_report: final_report (the summary and the
\* recommendations left out).
FinalReport(layers) ==
    [layers_executed |-> DOMAIN layers, layer_results |-> layers]

but_pipeline == <<run, ckpt_dir, call, retry, files, structure_eval,
                  execution_eval, dispatch>>
OnlyPipeline ==
    /\ NoRun /\ ckpt_dir = TRUE /\ NoCall /\ NoRetry /\ NoFiles
    /\ NoStructure /\ NoExecution /\ NoDispatch

PipelineInit ==
    /\ test_data \in {<<>>, [i \in 1..MaxRecords |-> TestItem(i, TRUE)]}
    /\ layers_to_run \in LayerLists
    /\ pipeline_pc = "start"
    /\ at = 1
    /\ layer_results = [L \in Layers |-> <<>>]
    /\ self_results = <<>>
    /\ results_dir \in
           {d \in [Layers -> UNION {EarlierFiles(K) : K \in Layers}] :
               /\ \A K \in Layers : d[K] \in EarlierFiles(K)
               /\ d[3] = <<>>}
    /\ events = <<>>
    /\ report_file = <<>>
    /\ exit_code = <<>>
    /\ OnlyPipeline

\* The coordinator raises and main returns 1.
Abort ==
    /\ pipeline_pc' = "raised"
    /\ exit_code' = <<1>>

\* The coordinator goes on after layer L: to the next layer, or to the
\* report after the last.
GoOn(L) ==
    /\ pipeline_pc' = IF L = 3 THEN "report" ELSE "layer"
    /\ at' = IF L = 3 THEN 3 ELSE L + 1

\* 'if not test_data: raise ValueError("No test data found or provided")'.
PipelineStart ==
    /\ pipeline_pc = "start"
    /\ IF test_data = <<>>
       THEN Abort
       ELSE /\ pipeline_pc' = "layer"
            /\ UNCHANGED exit_code
    /\ UNCHANGED <<test_data, layers_to_run, at, layer_results,
                   self_results, results_dir, events, report_file,
                   but_pipeline>>

\* Layer L is not in layers_to_run.
SkipLayer(L) ==
    /\ pipeline_pc = "layer"
    /\ at = L
    /\ L \notin Range(layers_to_run)
    /\ GoOn(L)
    /\ UNCHANGED <<test_data, layers_to_run, layer_results, self_results,
                   results_dir, events, report_file, exit_code,
                   but_pipeline>>

\* Layer L is in layers_to_run: layer 1's driver is called with test_data;
\* a later layer's with the prior layer's results, read from its results
\* file when the local is None, and not at all when there are none.
BeginLayer(L) ==
    /\ pipeline_pc = "layer"
    /\ at = L
    /\ L \in Range(layers_to_run)
    /\ LET prior == IF L = 1 THEN <<test_data>>
                    ELSE PriorResults(layer_results, results_dir, L - 1)
       IN  /\ layer_results' =
                  IF L = 1 THEN layer_results
                  ELSE [layer_results EXCEPT ![L - 1] = prior]
           /\ IF prior # <<>>
              THEN /\ pipeline_pc' = "driver"
                   /\ events' = Append(events,
                          [kind |-> "start", layer |-> L, with |-> prior])
                   /\ UNCHANGED at
              ELSE /\ GoOn(L)
                   /\ UNCHANGED events
    /\ UNCHANGED <<test_data, layers_to_run, self_results, results_dir,
                   report_file, exit_code, but_pipeline>>

\* The items the driver of layer L works on, given what it was called
\* with: the test data, or the prior layer's records that pass its filter.
DriverItems(L, given) ==
    IF L = 1 THEN given
    ELSE SuccessfulItems(L, Get(given, "test_results", <<>>))

\* The driver of layer L returns result, having written its results file
\* unless it found nothing to evaluate; the coordinator keeps the result
\* and prints the layer's summary.
DriverReturns(L, result, nothing) ==
    /\ pipeline_pc = "driver"
    /\ at = L
    /\ LET items == DriverItems(L, events[Len(events)].with[1])
       IN  IF nothing
           THEN L > 1 /\ items = <<>> /\ result = NoWorkResult(L)
           ELSE /\ L > 1 => items # <<>>
                /\ Len(result.test_results) <= Len(items)
    /\ events' = Append(events,
                        [kind |-> "return", layer |-> L, with |-> <<result>>])
    /\ results_dir' = IF nothing THEN results_dir
                      ELSE [results_dir EXCEPT ![L] = <<result>>]
    /\ layer_results' = [layer_results EXCEPT ![L] = <<result>>]
    /\ self_results' = [k \in DOMAIN self_results \cup {L} |->
                           IF k = L THEN result ELSE self_results[k]]
    /\ IF print_layer_summary_raises(L, result)
       THEN Abort /\ UNCHANGED at
       ELSE GoOn(L) /\ UNCHANGED exit_code
    /\ UNCHANGED <<test_data, layers_to_run, report_file, but_pipeline>>

\* The driver of layer L raises: 'except Exception as e: ... raise'.
DriverRaises(L) ==
    /\ pipeline_pc = "driver"
    /\ at = L
    /\ events' = Append(events,
                        [kind |-> "raise", layer |-> L, with |-> <<>>])
    /\ Abort
    /\ UNCHANGED <<test_data, layers_to_run, at, layer_results,
                   self_results, results_dir, report_file, but_pipeline>>

\* _generate_final_report writes the report and returns it; main returns 0.
Report ==
    /\ pipeline_pc = "report"
    /\ report_file' = <<FinalReport(self_results)>>
    /\ pipeline_pc' = "returned"
    /\ exit_code' = <<0>>
    /\ UNCHANGED <<test_data, layers_to_run, at, layer_results,
                   self_results, results_dir, events, but_pipeline>>

\* The report cannot be written: open() or json.dump raises.
ReportRaises ==
    /\ pipeline_pc = "report"
    /\ events' = Append(events,
                        [kind |-> "report", layer |-> 0, with |-> <<>>])
    /\ Abort
    /\ UNCHANGED <<test_data, layers_to_run, at, layer_results,
                   self_results, results_dir, report_file, but_pipeline>>

PipelineNext ==
    \/ PipelineStart
    \/ \E L \in Layers : SkipLayer(L)
    \/ \E L \in Layers : BeginLayer(L)
    \/ \E L \in Layers : \E result \in DriverResults(L) :
          DriverReturns(L, result, FALSE)
    \/ \E L \in Layers : DriverReturns(L, NoWorkResult(L), TRUE)
    \/ \E L \in Layers : DriverRaises(L)
    \/ Report
    \/ ReportRaises

PipelineSpec == PipelineInit /\ [][PipelineNext]_vars

\* ---- _generate_final_report: overall_summary and recommendations
\* The overall_average_score of a Layer-3 record, in tenths of a point; 0
\* is also what the report reads from a record whose aggregation gave none.
QualityScores == {0, 50, 60, 70}

\* A Layer-3 record as evaluate_output_quality returns it: with its
\* overall_evaluation when evaluation_success.
Scored(record, q) ==
    IF record.evaluation_success
    THEN record @@ [overall_evaluation |-> [overall_average_score |-> q]]
    ELSE record

\* What the driver of layer L returns from a call that finds no
\* checkpoint and works in one batch; o and q give, by test_id, how the
\* item's evaluation ends and the score it gets in layer 3.
FreshResult(L, given, o, q) ==
    LET items == SuccessfulItems(L, given)
        result == evaluate_batch(L, items,
                      [k \in DOMAIN items |-> o[ItemId(items[k])]])
        records == [k \in DOMAIN result.test_results |->
                       IF L = 3
                       THEN Scored(result.test_results[k],
                                   q[result.test_results[k].test_id])
                       ELSE result.test_results[k]]
    IN  IF L > 1 /\ items = <<>> THEN NoWorkResult(L)
        ELSE Stamp(MergeAll(EmptyCheckpoint,
                            <<[result EXCEPT !.test_results = records]>>),
                   L, 1)

\* The results of the three layers of one run on n test items.
RunResults(n, o, q) ==
    LET r1 == FreshResult(1, [i \in 1..n |-> TestItem(i, TRUE)], o[1], q)
        r2 == FreshResult(2, r1.test_results, o[2], q)
        r3 == FreshResult(3, r2.test_results, o[3], q)
    IN  <<r1, r2, r3>>

\* self.results when the report is built: the results of the layers run,
\* none of which made the printing of its summary raise.
ReportedResults ==
    {Restrict(RunResults(n, o, q), S) :
        n \in 1..MaxRecords,
        o \in [Layers -> [1..MaxRecords -> Outcomes]],
        q \in [1..MaxRecords -> QualityScores],
        S \in SUBSET Layers}

\* quality_scores: the overall_average_score, when above 0, of the records
\* with evaluation_success.
quality_scores(test_results) ==
    LET scored == SelectSeq(test_results,
                     LAMBDA r :
                         /\ Get(r, "evaluation_success", FALSE)
                         /\ Get(Get(r, "overall_evaluation", <<>>),
                                "overall_average_score", 0) > 0)
    IN  [i \in 1..Len(scored) |->
            scored[i].overall_evaluation.overall_average_score]

\* layer.get('summary', {}).get(k, 0) of a layer of self.results, 0 for a
\* layer that is not in self.results.
SummaryOf(results, L, k) ==
    IF L \in DOMAIN results
    THEN Get(Get(results[L], "summary", <<>>), k, 0)
    ELSE 0

\* _calculate_overall_summary().
calculate_overall_summary(results) ==
    LET summary ==
            [total_test_cases |-> SummaryOf(results, 1, "total_tests"),
             workflows_generated |-> SummaryOf(results, 1, "successful"),
             workflows_executed |-> SummaryOf(results, 2, "successful"),
             output_evaluations |-> SummaryOf(results, 3, "successful")]
        scores == IF 3 \in DOMAIN results
                  THEN quality_scores(Get(results[3], "test_results", <<>>))
                  ELSE <<>>
    IN  IF scores # <<>>
        THEN summary @@
                [average_quality_score |-> Ratio(Sum(scores), Len(scores))]
        ELSE summary

\* The recommendations, by what they are about.
LowGeneration == "Low workflow generation success rate"
HighFailure == "High execution failure rate"
LowQuality == "Low average output quality"
LookGood == "Evaluation results look good"

\* _generate_recommendations(): the rates are compared as the quotients
\* they are (successful / max(total, 1) < 0.8; failures > len * 0.3;
\* avg_quality < 6.0).
generate_recommendations(results) ==
    LET total == IF SummaryOf(results, 1, "total_tests") > 1
                 THEN SummaryOf(results, 1, "total_tests") ELSE 1
        layer_2_results ==
            IF 2 \in DOMAIN results
            THEN Get(results[2], "test_results", <<>>) ELSE <<>>
        execution_failures ==
            SelectSeq(layer_2_results,
                      LAMBDA r : ~Get(r, "overall_success", FALSE))
        layer_3_summary ==
            IF 3 \in DOMAIN results
            THEN Get(results[3], "overall_summary", <<>>) ELSE <<>>
        avg_quality ==
            Get(layer_3_summary, "average_quality_score", Ratio(0, 1))
        recommendations ==
            (IF /\ 1 \in DOMAIN results
                /\ 10 * SummaryOf(results, 1, "successful") < 8 * total
             THEN <<LowGeneration>> ELSE <<>>)
            \o (IF /\ 2 \in DOMAIN results
                   /\ 10 * Len(execution_failures) > 3 * Len(layer_2_results)
                THEN <<HighFailure>> ELSE <<>>)
            \o (IF /\ 3 \in DOMAIN results
                   /\ avg_quality.num < 60 * avg_quality.den
                THEN <<LowQuality>> ELSE <<>>)
    IN  IF recommendations = <<>> THEN <<LookGood>> ELSE recommendations

ReportInit ==
    /\ arg \in ReportedResults
    /\ 2 \in DOMAIN arg => ~print_layer_summary_raises(2, arg[2])
    /\ out = <<>>
    /\ OnlyCall

\* _generate_final_report builds final_report from self.results.
BuildReport ==
    /\ out = <<>>
    /\ out' = <<[layers_executed |-> DOMAIN arg,
                 layer_results |-> arg,
                 overall_summary |-> calculate_overall_summary(arg),
                 recommendations |-> generate_recommendations(arg)]>>
    /\ UNCHANGED <<arg, but_call>>

ReportNext == BuildReport

ReportSpec == ReportInit /\ [][ReportNext]_vars

\* ------------------------------------------------- the worker pool
\* memory_per_process_mb, the default of get_optimal_process_count.
MemoryPerProcessMb == 512

\* The machines: cpu_count, and the available memory in whole MiB
\* (available // (mb * 1024 * 1024) is (available // 2^20) // mb).
Hosts ==
    [cpu_count : 1..MaxCpu,
     memory_available :
         {0, MemoryPerProcessMb - 1, MemoryPerProcessMb,
          MaxCpu * MemoryPerProcessMb}]

\* min() of a non-empty set of integers.
Least(S) == CHOOSE x \in S : \A y \in S : x <= y

\* get_optimal_process_count(): int(cpu_count * 0.75) is the floor of
\* three quarters of cpu_count.
get_optimal_process_count(h) ==
    LET memory_based_limit == h.memory_available \div MemoryPerProcessMb
    IN  Least({(h.cpu_count * 3) \div 4, memory_based_limit, h.cpu_count})

\* num_processes, had the driver started one worker per batch.
num_processes_per_batch(processes, nbatches) == nbatches

\* num_processes = min(config.max_processes, len(batches)).
num_processes(processes, nbatches) == Least({processes, nbatches})

but_dispatch == <<run, ckpt_dir, call, retry, files, structure_eval,
                  execution_eval, pipeline>>
OnlyDispatch ==
    /\ NoRun /\ ckpt_dir = TRUE /\ NoCall /\ NoRetry /\ NoFiles
    /\ NoStructure /\ NoExecution /\ NoPipeline

\* main has its configuration; the layer run that follows has n items to
\* work on.
DispatchInit ==
    /\ host \in Hosts
    /\ max_processes \in (-1)..MaxProcesses
    /\ \E n \in 1..MaxItems, B \in 1..MaxBatchSize :
          pool = [pc |-> "main",
                  configured |-> max_processes,
                  batches |-> create_batch_iterator([i \in 1..n |-> i], B),
                  workers |-> 0,
                  queue |-> <<>>,
                  running |-> {},
                  done |-> {},
                  ran |-> <<>>]
    /\ OnlyDispatch

\* main: 'if config.max_processes <= 0:
\*            config.max_processes = get_optimal_process_count()'.
Validate ==
    /\ pool.pc = "main"
    /\ max_processes' = IF max_processes <= 0
                        THEN get_optimal_process_count(host)
                        ELSE max_processes
    /\ pool' = [pool EXCEPT !.pc = "driver"]
    /\ UNCHANGED <<host, but_dispatch>>

\* 'with ProcessPoolExecutor(max_workers=num_processes) as executor':
\* the executor raises ValueError unless max_workers is greater than 0.
CreatePool ==
    /\ pool.pc = "driver"
    /\ LET n == num_processes(max_processes, Len(pool.batches))
       IN  pool' = IF n <= 0
                   THEN [pool EXCEPT !.pc = "raised"]
                   ELSE [pool EXCEPT !.pc = "submit", !.workers = n,
                                     !.ran = [b \in DOMAIN pool.batches
                                                 |-> <<>>]]
    /\ UNCHANGED <<host, max_processes, but_dispatch>>

\* executor.submit(evaluate_..._batch, batch, config), batch after batch.
Submit ==
    /\ pool.pc = "submit"
    /\ LET submitted == Len(pool.queue) + Cardinality(pool.running)
                            + Cardinality(pool.done)
       IN  pool' = [pool EXCEPT
                       !.queue = Append(@, submitted + 1),
                       !.pc = IF submitted + 1 = Len(pool.batches)
                              THEN "collect" ELSE "submit"]
    /\ UNCHANGED <<host, max_processes, but_dispatch>>

\* The batches worker w is executing.
RunningOn(w) == {r \in pool.running : r[1] = w}

\* An idle worker process takes the next call of the queue.
Take(w) ==
    /\ pool.pc \in {"submit", "collect"}
    /\ w \in 1..pool.workers
    /\ RunningOn(w) = {}
    /\ pool.queue # <<>>
    /\ pool' = [pool EXCEPT
                   !.queue = Tail(@),
                   !.running = @ \cup {<<w, Head(pool.queue)>>},
                   !.ran[Head(pool.queue)] = Append(@, w)]
    /\ UNCHANGED <<host, max_processes, but_dispatch>>

\* The call worker w is executing returns or raises.
WorkerEnds(w) ==
    /\ pool.pc \in {"submit", "collect"}
    /\ RunningOn(w) # {}
    /\ pool' = [pool EXCEPT
                   !.running = @ \ RunningOn(w),
                   !.done = @ \cup {r[2] : r \in RunningOn(w)}]
    /\ UNCHANGED <<host, max_processes, but_dispatch>>

\* as_completed has yielded every future: the with block is left.
Shutdown ==
    /\ pool.pc = "collect"
    /\ pool.done = DOMAIN pool.batches
    /\ pool' = [pool EXCEPT !.pc = "done"]
    /\ UNCHANGED <<host, max_processes, but_dispatch>>

DispatchNext ==
    \/ Validate
    \/ CreatePool
    \/ Submit
    \/ \E w \in 1..pool.workers : Take(w)
    \/ \E w \in 1..pool.workers : WorkerEnds(w)
    \/ Shutdown

DispatchSpec == DispatchInit /\ [][DispatchNext]_vars

\* ------------------------------------------------------------ claims
IsPrefix(s, t) == Len(s) <= Len(t) /\ SubSeq(t, 1, Len(s)) = s

\* The call has submitted batches (worker_out has one entry per batch).
Dispatched == worker_out # <<>>

\* The items the driver works on when it finds no checkpoint.
WorkingItems == SuccessfulItems(layer, input)

\* The summary counter k of a result, 0 when absent.
Counter(r, k) == Get(Get(r, "summary", <<>>), k, 0)

\* C1: a call of the driver that follows a completed call with the same
\* input submits nothing and returns what the completed call returned.
C1_ResumptionIdempotent ==
    (pc = "done" /\ prev.status = "done") =>
        (~Dispatched /\ returned = prev.returned)

\* C2: in a call without prior checkpoint, ceil(N/B) batches are submitted,
\* every collected batch has added exactly one entry to all_results, and
\* the returned summary.total_tests is N.
C2_OneResultPerBatch ==
    fresh =>
        /\ pc = "collect" =>
              /\ Len(batches) =
                    (Len(WorkingItems) + batch_size - 1) \div batch_size
              /\ Len(all_results) = Cardinality(collected)
        /\ (pc = "done" /\ Dispatched) =>
              Counter(returned[1], "total_tests") = Len(WorkingItems)

\* C3: a batch whose future raises does not end the call: the call ends
\* only with every batch collected, and what it returns holds every record
\* of every batch whose worker returned.
C3_BatchFailureIsolated ==
    (pc \in {"done", "raised", "killed"} /\ Dispatched) =>
        /\ pc # "killed" =>
              \A b \in DOMAIN worker_out :
                  b \in raised_at \/ worker_out[b] # <<>>
        /\ pc = "done" =>
              \A b \in DOMAIN worker_out :
                  worker_out[b] # <<>> =>
                      Range(worker_out[b][1].test_results)
                          \subseteq Range(returned[1].test_results)

\* C3's case: a call ended with one future raised and the records of
\* another batch returned.
C3_Witness ==
    /\ pc = "done"
    /\ raised_at # {}
    /\ \E b \in DOMAIN worker_out :
          /\ worker_out[b] # <<>>
          /\ worker_out[b][1].test_results # <<>>
          /\ Range(worker_out[b][1].test_results)
                \subseteq Range(returned[1].test_results)

\* The entry of all_results is the one appended for a future that raised.
IsSynthetic(r) ==
    r.test_results = <<>> /\ \E e \in Range(r.errors) : e.type = "batch"

\* C4: the result recorded for a batch whose future raised counts all its
\* items as failed, and the summary a call returns has
\* successful + failed = total_tests.
C4_SummaryBalanced ==
    /\ \A i \in DOMAIN all_results :
          IsSynthetic(all_results[i]) =>
              /\ Counter(all_results[i], "successful") = 0
              /\ Counter(all_results[i], "failed")
                    = Counter(all_results[i], "total_tests")
    /\ (pc = "done" /\ returned # <<>>) =>
          Counter(returned[1], "successful") + Counter(returned[1], "failed")
              = Counter(returned[1], "total_tests")

\* The checkpoint written as file i does not shrink in the one written as
\* file j: its test_results are a prefix, its total_tests is not greater.
Grows(i, j) ==
    /\ IsPrefix(ckpt_files[i].test_results, ckpt_files[j].test_results)
    /\ Counter(ckpt_files[i], "total_tests")
          <= Counter(ckpt_files[j], "total_tests")

\* The checkpoints written: the checkpoint files that hold one.
Written == {i \in DOMAIN ckpt_files : IsReadable(ckpt_files[i])}

\* C5 as stated: of any two checkpoints written for the layer, the earlier
\* one's test_results are a prefix of the later one's and its total_tests
\* is not greater.
C5_CheckpointsGrowAlways ==
    \A i, j \in Written : i < j => Grows(i, j)

\* C5, amended: the same of any two checkpoints written since a call of
\* the driver last started without a readable latest checkpoint.
C5_CheckpointsGrow ==
    \A i, j \in Written : (epoch < i /\ i < j) => Grows(i, j)

\* C5's case: a resumed call has written a checkpoint that extends the
\* non-empty checkpoint it loaded.
C5_Witness ==
    /\ ~fresh
    /\ \E i, j \in Written :
          /\ epoch < i
          /\ i < j
          /\ ckpt_files[i].test_results # <<>>
          /\ Len(ckpt_files[i].test_results) < Len(ckpt_files[j].test_results)
          /\ Grows(i, j)

\* C6: whenever the number of collected batches is a multiple of K and no
\* write has raised, the latest checkpoint is the merge of the loaded
\* checkpoint and all the results collected so far.
C6_PeriodicCheckpoint ==
    (/\ pc = "collect"
     /\ ~save_failed
     /\ collected # {}
     /\ Cardinality(collected) % CheckpointEvery(layer) = 0) =>
        /\ load_checkpoint(ckpt_dir, ckpt_files) = MergeAll(checkpoint, all_results)

\* C7: no batch of layer 2 holds a Layer-1 record with success = False or
\* without workflow_json.
C7_Layer2Filter ==
    layer = 2 =>
        \A b \in DOMAIN batches : \A i \in DOMAIN batches[b] :
            batches[b][i].success /\ batches[b][i].workflow_json

\* C7's case: a resumed call of layer 2 has submitted batches while its
\* input holds a record that fails the filter.
C7_Witness ==
    /\ layer = 2
    /\ pc = "collect"
    /\ ~fresh
    /\ \E i \in DOMAIN input : ~(input[i].success /\ input[i].workflow_json)

\* C8: no batch of layer 3 holds a Layer-2 record with
\* overall_success = False.
C8_Layer3Filter ==
    layer = 3 =>
        \A b \in DOMAIN batches : \A i \in DOMAIN batches[b] :
            batches[b][i].overall_success

\* C8's case: a resumed call of layer 3 has submitted batches while its
\* input holds a record with overall_success = False.
C8_Witness ==
    /\ layer = 3
    /\ pc = "collect"
    /\ ~fresh
    /\ \E i \in DOMAIN input : ~input[i].overall_success

\* C9: what a batch worker returns for a batch of n items has
\* len(test_results) + len(errors) = n = summary.total_tests, with
\* successful and failed the lengths of the two lists.
C9_WorkerAccountsForAll ==
    pc = "collect" =>
        \A b \in DOMAIN worker_out :
            worker_out[b] # <<>> =>
                LET r == worker_out[b][1]
                    n == Len(batches[b])
                IN  /\ Len(r.test_results) + Len(r.errors) = n
                    /\ r.summary.total_tests = n
                    /\ r.summary.successful = Len(r.test_results)
                    /\ r.summary.failed = Len(r.errors)

\* C9's case: a worker has returned from a batch in which one item raised
\* and another returned a record.
C9_Witness ==
    /\ pc = "collect"
    /\ \E b \in DOMAIN worker_out :
          /\ worker_out[b] # <<>>
          /\ worker_out[b][1].test_results # <<>>
          /\ worker_out[b][1].errors # <<>>
          /\ Len(worker_out[b][1].test_results) + Len(worker_out[b][1].errors)
                = Len(batches[b])

\* No two entries of a list of records have the same test_id.
DistinctIds(records) ==
    \A i, j \in DOMAIN records :
        records[i].test_id = records[j].test_id => i = j

\* C10: with input items of pairwise distinct identifiers, no checkpoint
\* and no returned result holds two records with the same test_id.
C10_OneRecordPerItem ==
    (\A i, j \in DOMAIN input : ItemId(input[i]) = ItemId(input[j]) => i = j)
        =>
        /\ \A k \in Written : DistinctIds(ckpt_files[k].test_results)
        /\ returned # <<>> => DistinctIds(returned[1].test_results)

\* The items of the batches, in the order of the batches.
RECURSIVE Flatten(_)
Flatten(bs) == IF bs = <<>> THEN <<>> ELSE Head(bs) \o Flatten(Tail(bs))

\* C11: every record a layer's worker returns carries the test_id of an
\* item of its batch, never None, and the records of distinct items carry
\* distinct test_ids.
C11_TestIdJoinKey ==
    pc = "collect" =>
        \A b \in DOMAIN worker_out :
            worker_out[b] # <<>> =>
                LET records == worker_out[b][1].test_results
                IN  /\ \A k \in DOMAIN records :
                           /\ records[k].test_id # NoId
                           /\ records[k].test_id
                                 \in {ItemId(x) : x \in Range(batches[b])}
                    /\ DistinctIds(records)

\* C18: a call of the driver that finds no checkpoint directory starts from
\* the empty checkpoint and submits every item the layer works on (in
\* layer 1 every input item), each once and in input order.
C18_NoDirectoryStartsFresh ==
    ~ckpt_dir =>
        /\ load_checkpoint(ckpt_dir, ckpt_files) = NoCheckpoint
        /\ pc = "collect" =>
              /\ fresh
              /\ checkpoint = EmptyCheckpoint
              /\ Flatten(batches) = WorkingItems

\* C18's case: without the directory, a call has submitted its items in
\* more than one batch.
C18_Witness ==
    /\ ~ckpt_dir
    /\ pc = "collect"
    /\ Len(batches) > 1
    /\ Flatten(batches) = WorkingItems

\* C19: a call of the driver that starts while the latest checkpoint file
\* of the layer cannot be parsed starts from the empty checkpoint and
\* submits every item the layer works on.
C19_UnreadableStartsFresh ==
    [][(/\ pc # "collect"
        /\ pc' # pc
        /\ ckpt_files # <<>>
        /\ ~IsReadable(ckpt_files[Len(ckpt_files)]))
       => /\ layer # 1 /\ WorkingItems = <<>> => pc' = "done"
          /\ ~(layer # 1 /\ WorkingItems = <<>>) =>
                /\ fresh'
                /\ Flatten(batches') = WorkingItems
                /\ WorkingItems # <<>> =>
                      pc' = "collect" /\ checkpoint' = EmptyCheckpoint]_vars

\* C19's case: a call that found the latest checkpoint file unreadable,
\* after a readable one was written, has submitted every item.
C19_Witness ==
    /\ pc = "collect"
    /\ fresh
    /\ epoch > 1
    /\ ~IsReadable(ckpt_files[epoch])
    /\ \E i \in Written : i < epoch
    /\ Flatten(batches) = WorkingItems

\* The lists that the results of rs hold under key, one after the other;
\* a result without the key adds nothing.
RECURSIVE ConcatOf(_, _)
ConcatOf(rs, key) ==
    IF rs = <<>> THEN <<>>
    ELSE ConcatOf(SubSeq(rs, 1, Len(rs) - 1), key)
            \o Get(rs[Len(rs)], key, <<>>)

\* The sum over rs of the summary counter k; 0 for a result without it.
RECURSIVE SumOf(_, _)
SumOf(rs, k) ==
    IF rs = <<>> THEN 0
    ELSE SumOf(SubSeq(rs, 1, Len(rs) - 1), k) + Counter(rs[Len(rs)], k)

\* C12: what merge_results returns has the inputs' test_results and errors
\* concatenated in input order and each summary counter summed, with a
\* missing list as empty and a missing summary or counter as zero; the
\* inputs are as they were.
C12_MergeConcatenatesAndSums ==
    out # <<>> =>
        /\ out[1].value.test_results = ConcatOf(arg, "test_results")
        /\ out[1].value.errors = ConcatOf(arg, "errors")
        /\ \A k \in {"total_tests", "successful", "failed", "execution_time"} :
              out[1].value.summary[k] = SumOf(arg, k)
        /\ DOMAIN out[1].value = {"test_results", "errors", "summary"}
        /\ out[1].inputs = arg

\* C12's case: two results were merged, the first without summary and the
\* second without test_results, and the lists and counters are not empty.
C12_Witness ==
    /\ out # <<>>
    /\ Len(arg) = 2
    /\ "summary" \notin DOMAIN arg[1]
    /\ "test_results" \in DOMAIN arg[1]
    /\ "test_results" \notin DOMAIN arg[2]
    /\ out[1].value.test_results = <<2, 3>>
    /\ out[1].value.errors = <<7, 7>>
    /\ out[1].value.summary.total_tests = 2

\* C13: create_batch_iterator on N items with B > 0 returns ceil(N/B)
\* batches whose concatenation is the input; every batch but the last has
\* B items and the last has 1 to B; N = 0 gives no batch.
C13_BatchesPartition ==
    out # <<>> =>
        LET N == Len(arg.items)
            B == arg.batch_size
            bs == out[1]
        IN  /\ Len(bs) * B >= N
            /\ (Len(bs) - 1) * B < N \/ (N = 0 /\ bs = <<>>)
            /\ Flatten(bs) = arg.items
            /\ \A k \in DOMAIN bs :
                  /\ k < Len(bs) => Len(bs[k]) = B
                  /\ Len(bs[k]) \in 1..B

\* C13's case: a last batch shorter than B after more than one full batch.
C13_Witness ==
    /\ out # <<>>
    /\ arg.batch_size = 2
    /\ Len(arg.items) = 5
    /\ Len(out[1]) = 3
    /\ Len(out[1][3]) = 1
    /\ Flatten(out[1]) = arg.items

\* The callable raises on every invocation.
AlwaysRaises == \A n \in DOMAIN script : ~script[n].ok

\* The number of invocations that raise before the first that returns.
FailuresFirst ==
    Cardinality({n \in DOMAIN script : \A i \in 1..n : ~script[i].ok})

RECURSIVE Power(_, _)
Power(x, n) == IF n = 0 THEN 1 ELSE x * Power(x, n - 1)

\* C14: a callable that raises on every invocation is invoked at most
\* max_retries + 1 times, and exactly that often when the wrapper ends;
\* the wrapper then raises the exception of the last invocation.
C14_RetryBound ==
    AlwaysRaises =>
        /\ sync.calls <= max_retries + 1
        /\ sync.pc # "returned"
        /\ Ended(sync) =>
              /\ sync.calls = max_retries + 1
              /\ sync.ended = <<Raises(script[max_retries + 1].error)>>

\* C14's case: the wrapper has raised after three invocations of which the
\* last raised another exception than the first.
C14_Witness ==
    /\ AlwaysRaises
    /\ max_retries = 2
    /\ script[1].error # script[3].error
    /\ sync.pc = "raised"
    /\ sync.calls = 3
    /\ sync.ended = <<Raises(script[3].error)>>

\* C15: a callable that raises on its first k invocations, k < max_retries,
\* and returns on the next is invoked k + 1 times and no more; the wrapper
\* returns the value, having slept k times.
C15_RetrySuccess ==
    (FailuresFirst < max_retries /\ Ended(sync)) =>
        /\ sync.pc = "returned"
        /\ sync.calls = FailuresFirst + 1
        /\ sync.ended = <<script[FailuresFirst + 1]>>
        /\ Len(sync.slept) = FailuresFirst

\* C15's case: the wrapper has returned the value of the second
\* invocation, the first having raised.
C15_Witness ==
    /\ max_retries = 2
    /\ FailuresFirst = 1
    /\ sync.pc = "returned"
    /\ sync.calls = 2
    /\ sync.ended = <<Returns(1)>>

\* C16: the sleep after the failed attempt a is of
\* delay * backoff_factor^a, there is one sleep per failed attempt but the
\* last, and a callable that always raises causes max_retries sleeps.
C16_BackoffSchedule ==
    /\ \A a \in 0..(Len(sync.slept) - 1) :
          /\ a < max_retries
          /\ ~script[a + 1].ok
          /\ sync.slept[a + 1] = delay * Power(backoff_factor, a)
    /\ Len(sync.slept) \in {sync.calls - 1, sync.calls}
    /\ Len(sync.slept) = sync.calls => (sync.pc = "try" \/ sync.calls = 0)
    /\ Ended(sync) => Len(sync.slept) = sync.calls - 1
    /\ (AlwaysRaises /\ Ended(sync)) => Len(sync.slept) = max_retries

\* C16's case: after two failed attempts the wrapper has slept delay and
\* delay * backoff_factor, which differ, and has raised at the third.
C16_Witness ==
    /\ max_retries = 2
    /\ backoff_factor = 2
    /\ sync.pc = "raised"
    /\ sync.slept = <<delay, delay * 2>>

\* C17: on the same endings of the callable, the two wrappers that have
\* ended have made the same number of attempts, requested the same sleeps
\* and ended alike.
C17_SyncAsyncAlike ==
    (Ended(sync) /\ Ended(async)) =>
        /\ sync.calls = async.calls
        /\ sync.slept = async.slept
        /\ sync.pc = async.pc
        /\ sync.ended = async.ended

\* C17's case: both wrappers have ended after a sleep, one of the
\* invocations having raised.
C17_Witness ==
    /\ Ended(sync)
    /\ Ended(async)
    /\ async.slept # <<>>
    /\ sync.slept = async.slept
    /\ sync.ended = async.ended

\* The calls of save_checkpoint for layer L that wrote a file.
SavesOf(L) == {i \in DOMAIN saved : saved[i].layer = L}

\* C20: every call of save_checkpoint that writes makes one more file and
\* leaves the files written before as they were: a layer has as many
\* checkpoint files as calls have written for it, each with what its call
\* wrote.
C20_SaveNeverOverwrites ==
    /\ \A L \in Layers :
          Cardinality(checkpoint_files(disk, L)) = Cardinality(SavesOf(L))
    /\ \A i \in DOMAIN saved :
          \E f \in checkpoint_files(disk, saved[i].layer) :
              disk[f] = saved[i].data

\* The last call of save_checkpoint for layer L that wrote a file.
LastSaveOf(L) == CHOOSE i \in SavesOf(L) : \A j \in SavesOf(L) : j <= i

\* C21: load_checkpoint for layer L returns what the last save_checkpoint
\* for L that returned was given, whatever was saved for the other layers
\* before or after it, and None when nothing was saved for L.
C21_LoadReturnsLastSave ==
    [][\A L \in Layers :
          (/\ last_load' # last_load
           /\ last_load'[1].layer = L
           /\ SavesOf(L) # {} => IsReadable(saved[LastSaveOf(L)].data))
          => last_load'[1].value =
                 IF SavesOf(L) = {} THEN NoCheckpoint
                 ELSE saved[LastSaveOf(L)].data]_vars

\* C21's case: layer 1 was saved twice in different seconds, layer 2 was
\* saved after that, and the load for layer 1 has returned the second
\* save of layer 1.
C21_Witness ==
    /\ Len(saved) = 3
    /\ saved[1].layer = 1 /\ saved[2].layer = 1 /\ saved[3].layer = 2
    /\ saved[1].timestamp < saved[2].timestamp
    /\ last_load = <<[layer |-> 1, value |-> DataOf(2)]>>

\* The generator was called, and every call of it raised ValueError.
GeneratorAlwaysRaises(types) ==
    /\ generated # <<>>
    /\ \A i \in DOMAIN generated :
          ~generated[i].ok /\ generated[i].error.type \in types

\* C22: when every call of the generator raised ValueError,
\* evaluate_workflow_structure returns a record with success = False whose
\* error has type 'ValueError' and is_expected = True, and raises nothing.
C22_ValueErrorRecorded ==
    (Ended(structure) /\ GeneratorAlwaysRaises({"ValueError"})) =>
        /\ structure.pc = "returned"
        /\ structure.ended[1].value.success = FALSE
        /\ structure.ended[1].value.error.type = "ValueError"
        /\ structure.ended[1].value.error.is_expected = TRUE

\* C23: when every call of the generator raised, the generator has been
\* called 3 times by the time evaluate_workflow_structure ends with the
\* item recorded as failed.
C23_GenerationRetried ==
    (Ended(structure) /\ GeneratorAlwaysRaises(ExceptionTypes)) =>
        /\ structure.ended[1].value.success = FALSE
        /\ Len(generated) = 3

\* The input sets whose entry is in execution_results.
Recorded == 1..Len(execution_results)

\* Every execution of input set i raised.
AllRaised(i) == \A k \in DOMAIN executed[i] : ~executed[i][k].ok

\* C24 as stated: an input set is executed at most 2 times in all, and one
\* whose two executions raised has a failed entry.
C24_TwoAttempts ==
    \A i \in DOMAIN executed :
        /\ Len(executed[i]) <= 2
        /\ (i \in Recorded /\ AllRaised(i)) =>
               execution_results[i].success = FALSE

\* C24, amended: an input set is executed at most 3 times in all
\* (max_retries = 2), with sleeps of 1s and then 2s between the attempts;
\* one whose three executions raised has a failed entry, one with an
\* execution that returned has a successful entry, and nothing is executed
\* for an input set once its entry is recorded.
C24_ThreeAttempts ==
    /\ \A i \in DOMAIN executed :
          /\ Len(executed[i]) <= ExecutionRetries + 1
          /\ i \in Recorded =>
                /\ Len(executed[i]) >= 1
                /\ \A k \in 1..(Len(executed[i]) - 1) : ~executed[i][k].ok
                /\ AllRaised(i) => Len(executed[i]) = ExecutionRetries + 1
                /\ execution_results[i].success = ~AllRaised(i)
    /\ (exec_pc = "loop" /\ Ended(executor) /\ executor.pc = "raised") =>
          executor.slept = <<1, 2>>
    /\ Len(executed) <= Len(execution_results) + 1

\* C24's case: the first input set was executed three times, every time
\* raising, and has a failed entry; the second is being executed.
C24_Witness ==
    /\ Len(executed) = 2
    /\ Len(executed[1]) = 3
    /\ AllRaised(1)
    /\ execution_results[1].success = FALSE
    /\ Len(executed[2]) = 1

\* The sum of the counts of the types in S.
RECURSIVE CountsOver(_, _)
CountsOver(error_types, S) ==
    IF S = {} THEN 0
    ELSE LET t == CHOOSE x \in S : TRUE
         IN  error_types[t].count + CountsOver(error_types, S \ {t})

\* The analysis of the record returned.
Analysis == execution_out[1].error_analysis

\* C25: an input set whose every execution raised an exception of one and
\* the same expected type is counted under that type, as expected; and in
\* every analysis each type's count is its expected_count plus its
\* unexpected_count, total_errors is the sum of the counts, and no type
\* has more than 3 examples.
C25_ExpectedFailuresClassified ==
    (execution_out # <<>> /\ "error_analysis" \in DOMAIN execution_out[1])
    =>
    /\ \A i \in DOMAIN executed, t \in expected_types :
          (AllRaised(i) /\ \A k \in DOMAIN executed[i] :
                               executed[i][k].error.type = t)
          => /\ t \in DOMAIN Analysis.error_types
             /\ Analysis.error_types[t].expected_count >= 1
    /\ \A t \in DOMAIN Analysis.error_types :
          /\ Analysis.error_types[t].count =
                 Analysis.error_types[t].expected_count
                 + Analysis.error_types[t].unexpected_count
          /\ Len(Analysis.error_types[t].examples) <= 3
    /\ Analysis.total_errors =
           CountsOver(Analysis.error_types, DOMAIN Analysis.error_types)

\* The record returned has statistics.
HasStatistics ==
    execution_out # <<>> /\ "statistics" \in DOMAIN execution_out[1]

\* C26: in a Layer-2 record with statistics, overall_success says that
\* some input set succeeded, total_executions is successful_executions
\* plus failed_executions, these count the successful and the failed
\* entries, and execution_results has the entry of every input set, in
\* the order of the input sets.
C26_StatisticsConsistent ==
    HasStatistics =>
        LET record == execution_out[1]
            results == record.execution_results
            succeeded == {i \in DOMAIN results : results[i].success}
        IN  /\ record.overall_success = (succeeded # {})
            /\ record.statistics.total_executions =
                   record.statistics.successful_executions
                   + record.statistics.failed_executions
            /\ record.statistics.successful_executions =
                   Cardinality(succeeded)
            /\ record.statistics.total_executions = Len(results)
            /\ Len(results) = Len(test_inputs)
            /\ \A i \in DOMAIN results :
                  /\ results[i].input_set = i
                  /\ results[i].success = ~AllRaised(i)

\* C26's case: of the three input sets the second alone succeeded, after
\* a retry, and the record says overall_success.
C26_Witness ==
    /\ HasStatistics
    /\ AllRaised(1) /\ ~AllRaised(2) /\ AllRaised(3)
    /\ Len(executed[2]) = 2
    /\ execution_out[1].overall_success = TRUE
    /\ execution_out[1].statistics.failed_executions = 2

\* C27: the label is Excellent from 8.0 points up, Good from 7.0 to below
\* 8.0, Satisfactory from 6.0 to below 7.0, Below Average from 5.0 to
\* below 6.0 and Poor below 5.0.
C27_LabelThresholds ==
    out # <<>> =>
        LET at_least(t) == arg.num >= t * arg.den
        IN  /\ at_least(80) => out[1] = "Excellent"
            /\ (at_least(70) /\ ~at_least(80)) => out[1] = "Good"
            /\ (at_least(60) /\ ~at_least(70)) => out[1] = "Satisfactory"
            /\ (at_least(50) /\ ~at_least(60)) => out[1] = "Below Average"
            /\ ~at_least(50) => out[1] = "Poor"

\* C27's case: a score of exactly 7.0 points has been labelled Good.
C27_Witness == arg = Ratio(70, 1) /\ out = <<"Good">>

\* The positions of the successful evaluations of the argument.
Successful == {i \in DOMAIN arg : arg[i].evaluation_success}

\* The sum over the positions in S of the score of criterion c.
RECURSIVE TotalScore(_, _)
TotalScore(S, c) ==
    IF S = {} THEN 0
    ELSE LET i == CHOOSE x \in S : TRUE
         IN  arg[i].quality_scores[c] + TotalScore(S \ {i}, c)

\* C28: from the successful evaluations alone, each criterion's
\* average_score is the mean of its scores, min_score the least,
\* max_score the greatest and score_variance their difference (0 for one
\* score), and overall_average_score is the mean of the criteria's
\* averages; without a successful evaluation nothing is aggregated.
C28_AggregationStatistics ==
    out # <<>> =>
        IF Successful = {} THEN out[1] = [aggregation_success |-> FALSE]
        ELSE
        LET n == Cardinality(Successful)
            scores(c) == {arg[i].quality_scores[c] : i \in Successful}
            stats == out[1].aggregated_scores
            overall == out[1].overall_average_score
        IN  /\ DOMAIN stats = Range(criteria)
            /\ \A c \in Range(criteria) :
                  /\ stats[c].average_score.num * n =
                         TotalScore(Successful, c)
                         * stats[c].average_score.den
                  /\ stats[c].min_score \in scores(c)
                  /\ \A x \in scores(c) : stats[c].min_score <= x
                  /\ stats[c].max_score \in scores(c)
                  /\ \A x \in scores(c) : x <= stats[c].max_score
                  /\ stats[c].score_variance =
                         stats[c].max_score - stats[c].min_score
            /\ overall.num * 4 * n =
                   (TotalScore(Successful, criteria[1])
                    + TotalScore(Successful, criteria[2])
                    + TotalScore(Successful, criteria[3])
                    + TotalScore(Successful, criteria[4])) * overall.den
            /\ out[1].successful_evaluations = n

\* C28's case: task_completion scores of 8.5 and 7.0 from two successful
\* evaluations, with a failed one between them, have given the average
\* 7.75, the minimum 7.0, the maximum 8.5 and the variance 1.5.
C28_Witness ==
    /\ Len(arg) = 3
    /\ out # <<>>
    /\ arg[1].evaluation_success /\ arg[1].quality_scores.task_completion = 85
    /\ ~arg[2].evaluation_success
    /\ arg[3].evaluation_success /\ arg[3].quality_scores.task_completion = 70
    /\ LET t == out[1].aggregated_scores.task_completion
       IN  /\ t.average_score.num * 2 = 155 * t.average_score.den
           /\ t.min_score = 70
           /\ t.max_score = 85
           /\ t.score_variance = 15

\* The positions of events at which a driver was started, returned, raised.
Starts == {i \in DOMAIN events : events[i].kind = "start"}
Returned == {i \in DOMAIN events : events[i].kind = "return"}
Raisings == {i \in DOMAIN events : events[i].kind = "raise"}

\* C29: whatever the order of layers_to_run, the drivers started are of
\* layers asked for and are started in the order 1, 2, 3, each after the
\* one before it has returned; layer 1's is called with the test data and
\* a later layer's with what the prior layer's driver returned in this
\* run or, when that driver was not run, with the content of the prior
\* layer's results file.
C29_LayersInOrder ==
    /\ \A i, j \in Starts : i < j => events[i].layer < events[j].layer
    /\ \A j \in Starts :
          /\ events[j].layer \in Range(layers_to_run)
          /\ j > 1 => events[j - 1].kind = "return"
          /\ LET L == events[j].layer
                 ran == {i \in Returned : events[i].layer = L - 1}
             IN  events[j].with =
                     IF L = 1 THEN <<test_data>>
                     ELSE IF ran # {}
                          THEN events[CHOOSE i \in ran : TRUE].with
                          ELSE load_layer_results(results_dir, L - 1)

\* C29's case: the layers were asked for as 3, 2, 1 and layer 1's results
\* file held an earlier run's results; the three drivers have run in the
\* order 1, 2, 3, layer 2's on what layer 1's returned in this run.
C29_Witness ==
    /\ layers_to_run = <<3, 2, 1>>
    /\ pipeline_pc = "returned"
    /\ Len(events) = 6
    /\ events[1].with = <<test_data>>
    /\ events[3].layer = 2
    /\ events[3].with = events[2].with
    /\ events[2].with[1].timestamp = 1
    /\ events[5].layer = 3

\* main has returned.
MainReturned == exit_code # <<>>

\* The report file could not be written.
ReportFailed == \E i \in DOMAIN events : events[i].kind = "report"

\* C30: once a driver has raised no driver is started and no report is
\* written, the coordinator raises and main returns 1; and main returns 0
\* when, test data found and the report file written without an error, no
\* driver has raised.
C30_AbortOnDriverFailure ==
    /\ Raisings # {} =>
          /\ \A i \in Raisings : i = Len(events)
          /\ report_file = <<>>
          /\ pipeline_pc = "raised"
          /\ exit_code = <<1>>
    /\ (MainReturned /\ Raisings = {} /\ test_data # <<>>
            /\ ~ReportFailed)
          => exit_code = <<0>>

\* The Layer-2 driver has returned records none of which has
\* overall_success.
Layer2AllFailed ==
    \E i \in Returned :
        /\ events[i].layer = 2
        /\ events[i].with[1].test_results # <<>>
        /\ \A k \in DOMAIN events[i].with[1].test_results :
              ~events[i].with[1].test_results[k].overall_success

\* C31: a run of layers 1, 2, 3 in which every Layer-2 record has
\* overall_success = False, no driver raises and the report file can be
\* written does not raise, and ends with the report written and main
\* returning 0.
C31_ItemFailuresRecorded ==
    (/\ Range(layers_to_run) = Layers
     /\ test_data # <<>>
     /\ Layer2AllFailed
     /\ Raisings = {}
     /\ ~ReportFailed)
        => /\ pipeline_pc # "raised"
           /\ MainReturned => (report_file # <<>> /\ exit_code = <<0>>)

\* The report built, and the average quality score it states.
TheReport == out[1]
HasAverage == "average_quality_score" \in DOMAIN TheReport.overall_summary
AverageBelow(tenths) ==
    TheReport.overall_summary.average_quality_score.num
        < tenths * TheReport.overall_summary.average_quality_score.den

\* The thresholds of layers 1 and 2: a success rate below 80%, a failure
\* rate above 30%.
Layer1Triggered ==
    /\ 1 \in DOMAIN arg
    /\ 5 * Counter(arg[1], "successful")
          < 4 * (IF Counter(arg[1], "total_tests") = 0 THEN 1
                 ELSE Counter(arg[1], "total_tests"))
Layer2Triggered ==
    /\ 2 \in DOMAIN arg
    /\ 10 * Cardinality({i \in DOMAIN arg[2].test_results :
                            ~arg[2].test_results[i].overall_success})
          > 3 * Len(arg[2].test_results)

\* C32: in the report of a run in which layer 3 ran and gave an average
\* quality score, the low-quality recommendation is present exactly when
\* that average is below 6.0, and 'results look good' exactly when no
\* threshold is triggered.
C32_QualityRecommendation ==
    (out # <<>> /\ 3 \in DOMAIN arg /\ HasAverage) =>
        /\ LowQuality \in Range(TheReport.recommendations)
              <=> AverageBelow(60)
        /\ LookGood \in Range(TheReport.recommendations)
              <=> ~(Layer1Triggered \/ Layer2Triggered \/ AverageBelow(60))

\* The number of records of layer L in self.results that have flag set.
RecordsWith(L, flag) ==
    Cardinality({i \in DOMAIN arg[L].test_results :
                    arg[L].test_results[i][flag]})

\* C33: in the report of a run of the three layers, workflows_generated is
\* the number of Layer-1 records with success, workflows_executed the
\* number of Layer-2 records with overall_success, and
\* output_evaluations <= workflows_executed <= workflows_generated
\* <= total_test_cases.
C33_CountsFollowItems ==
    (out # <<>> /\ DOMAIN arg = Layers) =>
        LET summary == TheReport.overall_summary
        IN  /\ summary.workflows_generated = RecordsWith(1, "success")
            /\ summary.workflows_executed = RecordsWith(2, "overall_success")
            /\ summary.output_evaluations <= summary.workflows_executed
            /\ summary.workflows_executed <= summary.workflows_generated
            /\ summary.workflows_generated <= summary.total_test_cases

\* The workers that are executing a batch.
Busy == {r[1] : r \in pool.running}

\* C34: in a layer run with a pool, the batches being executed at one time
\* are never more than min(max_processes, number of batches); a worker
\* executes one batch at a time, and the batch it has taken is its own
\* until it is done; no batch is executed twice or by two workers, and
\* when the run leaves the pool every batch has been executed by exactly
\* one worker.
C34_BoundedDispatch ==
    pool.pc \in {"submit", "collect", "done"} =>
        /\ Cardinality(pool.running)
              <= Least({max_processes, Len(pool.batches)})
        /\ \A r1, r2 \in pool.running :
              (r1[1] = r2[1] \/ r1[2] = r2[2]) => r1 = r2
        /\ \A b \in DOMAIN pool.batches :
              /\ Len(pool.ran[b]) <= 1
              /\ pool.ran[b] # <<>> =>
                    (b \in pool.done) # (<<pool.ran[b][1], b>> \in pool.running)
        /\ pool.pc = "done" =>
              \A b \in DOMAIN pool.batches : Len(pool.ran[b]) = 1

\* C34's case: three batches and two processes; one batch is done and the
\* two workers are executing the other two.
C34_Witness ==
    /\ pool.pc = "collect"
    /\ max_processes = 2
    /\ Len(pool.batches) = 3
    /\ Cardinality(pool.running) = 2
    /\ pool.queue = <<>>
    /\ Cardinality(pool.done) = 1

\* C40: on a machine with a CPU and memory for at least one worker, a
\* configured max_processes of 0 or less is replaced by
\* min(floor(0.75 * cpu_count), available memory div per-worker memory,
\* cpu_count), a number from 1 to cpu_count, and the layer run gets a pool
\* of at least one worker.
C40_AutoSizedPoolUsable ==
    (/\ pool.configured <= 0
     /\ host.cpu_count >= 1
     /\ host.memory_available >= MemoryPerProcessMb
     /\ pool.pc # "main")
        => /\ max_processes =
                 Least({(3 * host.cpu_count) \div 4,
                        host.memory_available \div MemoryPerProcessMb,
                        host.cpu_count})
           /\ max_processes \in 1..host.cpu_count
           /\ pool.pc # "raised"
           /\ pool.pc \in {"submit", "collect", "done"} => pool.workers >= 1

\* The checkpoint a call of the driver that starts now loads.
Loaded == load_checkpoint(ckpt_dir, ckpt_files)

\* A checkpoint is loaded and holds a record for every input item.
AllInCheckpoint ==
    /\ Loaded # NoCheckpoint
    /\ \A i \in DOMAIN input :
          ItemKey(layer, input[i]) \in CompletedIds(Loaded)

\* C35: a call of the driver that loads a checkpoint holding every input
\* item submits no batch, writes no checkpoint file and no results file,
\* and returns the loaded checkpoint as it is.
C35_CompleteCheckpointTerminal ==
    [][(pc # "collect" /\ AllInCheckpoint)
       => /\ pc' = "done"
          /\ returned' = <<Loaded>>
          /\ batches' = <<>>
          /\ worker_out' = <<>>
          /\ ckpt_files' = ckpt_files
          /\ results_file' = results_file]_vars

\* C35's case: a call that followed a completed call has returned the
\* checkpoint with its records, without submitting or writing anything.
C35_Witness ==
    /\ pc = "done"
    /\ prev.status = "done"
    /\ ~Dispatched
    /\ AllInCheckpoint
    /\ input # <<>>
    /\ returned = <<Loaded>>
    /\ Loaded.test_results # <<>>
    /\ results_file = <<Loaded>>
    /\ Len(ckpt_files) = 1

\* How many items of the list have the key k; how many records the id k.
ItemsWithKey(items, k) ==
    Cardinality({i \in DOMAIN items : ItemKey(layer, items[i]) = k})
RecordsWithId(records, k) ==
    Cardinality({i \in DOMAIN records : records[i].test_id = k})

\* C37: in a call of the driver that resumes from a checkpoint, every item
\* the layer works on is in exactly one of the batches submitted, save the
\* items for which the checkpoint holds a record: of the items of one key,
\* no more are left out than the checkpoint has records of that key.
C37_ResumptionSkipsNoWork ==
    [][(/\ pc # "collect"
        /\ Loaded # NoCheckpoint
        /\ ~(layer # 1 /\ WorkingItems = <<>>))
       => LET submitted == Flatten(batches')
              keys == {ItemKey(layer, x) : x \in Range(WorkingItems)}
          IN  /\ \A i, j \in DOMAIN submitted :
                    submitted[i] = submitted[j] => i = j
              /\ Range(submitted) \subseteq Range(WorkingItems)
              /\ \A k \in keys :
                    ItemsWithKey(WorkingItems, k) - ItemsWithKey(submitted, k)
                        <= RecordsWithId(Loaded.test_results, k)]_vars

\* The two lists hold the same entries, each as often in the one as in
\* the other.
CountIn(s, x) == Cardinality({i \in DOMAIN s : s[i] = x})
SameBag(s, t) ==
    /\ Len(s) = Len(t)
    /\ \A x \in Range(s) \cup Range(t) : CountIn(s, x) = CountIn(t, x)

\* What the batches of the call have given, each batch its worker's result
\* or the record of its failure, in the order of the batches.
ResultsInBatchOrder ==
    [b \in DOMAIN batches |->
        IF b \in raised_at THEN SyntheticResult(Len(batches[b]))
        ELSE worker_out[b][1]]

\* s is a run of consecutive entries of t.
IsSegment(s, t) ==
    \E k \in 0..(Len(t) - Len(s)) : SubSeq(t, k + 1, k + Len(s)) = s

\* s is t with some entries left out.
RECURSIVE IsSubsequence(_, _)
IsSubsequence(s, t) ==
    IF s = <<>> THEN TRUE
    ELSE IF t = <<>> THEN FALSE
    ELSE IF Head(s) = Head(t) THEN IsSubsequence(Tail(s), Tail(t))
         ELSE IsSubsequence(s, Tail(t))

\* What the call records for a periodic checkpoint write that raised,
\* when its batches complete in their order: the failure of the batch
\* collected as the K-th.
SaveFailureInBatchOrder ==
    IF save_failed
    THEN <<SyntheticResult(Len(batches[CheckpointEvery(layer)]))>>
    ELSE <<>>

\* C38: in whatever order the batches of a call complete, what the call
\* returns has the counters, the test_results and the errors (each as
\* often as it occurs) that it has when the batches complete in their
\* order; the records of one batch are together and in the order of the
\* batch's items.
C38_CompletionOrderIndependent ==
    [][(pc = "collect" /\ pc' = "done")
       => LET all == <<checkpoint>> \o ResultsInBatchOrder
                         \o SaveFailureInBatchOrder
              final == returned'[1]
          IN  /\ \A k \in {"total_tests", "successful", "failed"} :
                    Counter(final, k) = SumOf(all, k)
              /\ SameBag(final.test_results, ConcatOf(all, "test_results"))
              /\ SameBag(final.errors, ConcatOf(all, "errors"))
              /\ \A b \in DOMAIN batches \ raised_at :
                    LET records == worker_out[b][1].test_results
                    IN  /\ IsSegment(records, final.test_results)
                        /\ IsSubsequence(
                              [i \in DOMAIN records |-> records[i].test_id],
                              [i \in DOMAIN batches[b] |->
                                  ItemKey(layer, batches[b][i])])]_vars

\* The identifiers of the items of the driver's input.
InputKeys == {ItemKey(layer, input[i]) : i \in DOMAIN input}

\* C39: what a driver call returns describes the items of that call only:
\* every returned record carries the identifier of an item of the input,
\* and summary.total_tests is at most the number of input items, whatever
\* checkpoint the directory held when the call began.
C39_OnlyCurrentInput ==
    (pc = "done")
        => LET final == returned[1]
           IN  /\ \A i \in DOMAIN final.test_results :
                     final.test_results[i].test_id \in InputKeys
               /\ Counter(final, "total_tests") <= Len(input)

\* The call has returned what it merged, after writing it as the final
\* checkpoint and as the results file.
Completed ==
    /\ pc = "done"
    /\ returned # <<>>
    /\ ckpt_files # <<>>
    /\ ckpt_files[Len(ckpt_files)] = returned[1]
    /\ results_file = returned

\* A checkpoint or results write of the call has raised, or the process
\* has been killed.
Disturbed == save_failed \/ pc \in {"raised", "killed"}

\* C36: when every worker ends, a driver that has submitted its batches
\* comes to return the merged results, written as the final checkpoint and
\* as the results file, unless a write raises; it returns only when
\* every batch has been collected, and the results file is written only
\* after the final checkpoint, with the checkpoint's content.
C36_DriverCompletes ==
    /\ (pc = "collect") ~> (Completed \/ Disturbed)
    /\ [][(pc = "collect" /\ pc' = "done")
              => /\ collected = DOMAIN batches
                 /\ returned' =
                       <<Stamp(merge_results(<<checkpoint>> \o all_results),
                               layer, Len(ckpt_files))>>]_vars
    /\ [][results_file' # results_file
              => /\ Len(ckpt_files') = Len(ckpt_files) + 1
                 /\ results_file' \in {<<ckpt_files'[Len(ckpt_files')]>>,
                                       <<Unreadable>>}]_vars

\* A first call that evaluated MaxItems items with success and returned,
\* no write raising.
C36_Witness ==
    /\ Completed
    /\ prev.status = "idle"
    /\ ~save_failed
    /\ faults = 0
    /\ Len(returned[1].test_results) = MaxItems

====
